---------------------------- MODULE Spec2Model ----------------------------
(***************************************************************************)
(* Lead Master: the signal-ingestion pipeline of src/fetch_signals.py, the *)
(* tables of src/utils.py and the dashboard handlers of src/app.py that    *)
(* write to the same store.                                                *)
(*                                                                         *)
(* Strings are sequences of one-character strings, so that str.lower() is  *)
(* computed character by character.  Money is counted in hundredths of a   *)
(* cent, so that the costs 0.07 and 0.5 of the source are the integers 7   *)
(* and 50.                                                                 *)
(***************************************************************************)
EXTENDS Integers, Sequences, FiniteSets, TLC

VARIABLES
    dd_in,      \* dedup: the list handed to dedup
    dd_out,     \* dedup: the list dedup returned for dd_in
    dd_out2,    \* dedup: the list dedup returned for dd_out
    dd_pc,      \* dedup: "start" | "once" | "twice"
    BUDGET_USED,   \* fetch_signals.BUDGET_USED, in hundredths of a cent
    DAILY_BUDGET,  \* fetch_signals.DAILY_BUDGET, in cents (DAILY_BUDGET_CENTS)
    charged,    \* sum of the costs for which budget_ok returned True
    bo_n,       \* number of budget_ok calls made so far
    bo_ret,     \* what the last budget_ok call returned
    th_pc,      \* per thread: the line of budget_ok it is at
    th_cost,    \* per thread: the argument cost
    th_tmp,     \* per thread: the value of BUDGET_USED it loaded at line 96
    dbLayout,   \* lead_master.db: "fresh" (tables as ensure_tables creates
                \* them) | "extended" (an older file whose clients table has
                \* lat, lon and which has a contacts table)
    db_clients, \* committed clients table: name -> status
    db_signals, \* committed signals table: row -> number of copies (the
                \* ids, which order the copies, are left out)
    wlock,      \* holder of the database write lock: "none" | "scan" | "ui"
    spc,        \* national_scan: position of the thread running it
    scans,      \* number of national_scan runs started
    prospects,  \* national_scan: prospects
    infos,      \* national_scan: infos (results of gpt_batch_signal_info)
    bi,         \* gpt_batch_signal_info: i, the start of the current chunk
    fi,         \* gpt_batch_signal_info: position in the fallback loop
    by_co,      \* national_scan: by_co, in insertion order
    gi,         \* national_scan: position in by_co.items()
    info,       \* national_scan: info of the current group
    rows,       \* national_scan: rows
    s_tx,       \* the open transaction of national_scan's connection
    ext_call,   \* the call to the text-analysis service made by the last step
                \* of national_scan, if any
    denied,     \* budget_ok has returned False
    ui_pc,      \* dashboard session: position in the "Save selected" handler
    ui_co,      \* dashboard session: st.session_state["search_co"]
    ui_picks,   \* dashboard session: the rows ticked for saving
    ui_tx,      \* the open transaction of the dashboard's connection
    saves,      \* number of "Save selected" runs started
    eng_fn,     \* extraction engine: the function called last
    eng_rsp,    \* extraction engine: how the service answered the calls that
                \* function made, in order
    eng_ret,    \* extraction engine: what the function returned, or that it
                \* raised
    eng_n,      \* extraction engine: number of calls made so far
    now,        \* time.time(), in seconds
    LAST_SUMMARY,  \* fetch_signals._LAST_SUMMARY
    sm_pc,      \* per thread: the line of gpt_summary's throttle it is at
    sm_wake,    \* per thread: the time at which its time.sleep(wait) ends
    passes,     \* the times at which line 238 was run, in order
    sm_n,       \* number of gpt_summary invocations so far
    cache,      \* committed rows of the cache table of rss_gdelt_cache.db:
                \* key -> data, ts
    ad_fetched, \* per key: the list the last fetch for it handed to _store
    ad_fn,      \* adapters: the function the caller ran last
    ad_arg,     \* adapters: the key and ttl of that call
    ad_trace,   \* adapters: the adapter invocations that call made, in order
    ad_ret,     \* adapters: what the caller got, or that it raised
    ad_n,       \* adapters: number of calls made so far
    cache_lock, \* fetch_signals.cache_lock: the thread holding it, or 0
    cache_tx,   \* the INSERT pending on the connection _cache, if any
    w_pc,       \* per fetch worker: its position in the adapter
    w_fn,       \* per fetch worker: the adapter it is in
    w_out,      \* per fetch worker: the list its adapter returns
    geo_in,     \* safe_geocode: the arguments headline and company
    geo_rsp,    \* safe_geocode: how the geocoder answered the queries made,
                \* in order
    geo_ret,    \* safe_geocode: what it returned, or that it raised
    geo_n,      \* safe_geocode: number of calls made so far
    ms_fn,      \* search overlay: the branch of its last run, "manual_search"
                \* or "show_all"
    ms_trace,   \* search overlay: the adapter invocations of that run
    ms_made,    \* search overlay: the summary and geocoding calls of that run
    ms_ret,     \* search overlay: what manual_search returned, or that it
                \* raised
    ms_view,    \* search overlay: "rendered", or "raised" when an exception
                \* left the script
    ms_n,       \* search overlay: number of runs so far
    gb_heads,   \* gpt_batch_signal_info: the argument headlines
    gb_chunk,   \* gpt_batch_signal_info: the argument chunk
    gb_i,       \* gpt_batch_signal_info: i, the start of the current chunk
    gb_f,       \* gpt_batch_signal_info: position in the fallback loop, 0
                \* outside it
    gb_results, \* gpt_batch_signal_info: results
    gb_calls,   \* gpt_batch_signal_info: the calls made so far, in order
    gb_pc,      \* gpt_batch_signal_info: "idle" | "chunk" | "fallback" |
                \* "returned" | "raised"
    fetches     \* the requests sent to the news service by the sessions, as
                \* the cache keys they were made for, in order

ddVars  == <<dd_in, dd_out, dd_out2, dd_pc>>
budVars == <<BUDGET_USED, DAILY_BUDGET, charged, bo_n, bo_ret>>
thVars  == <<th_pc, th_cost, th_tmp>>
dbVars  == <<dbLayout, db_clients, db_signals, wlock>>
scanVars == <<spc, scans, prospects, infos, bi, fi, by_co, gi, info, rows, s_tx>>
extVars == <<ext_call, denied>>
uiVars  == <<ui_pc, ui_co, ui_picks, ui_tx, saves>>
pipeVars == <<dbVars, scanVars, extVars, uiVars>>
\* the variables of the parts modelled further down
engVars == <<eng_fn, eng_rsp, eng_ret, eng_n>>
thrVars == <<now, LAST_SUMMARY, sm_pc, sm_wake, passes, sm_n>>
cacheVars == <<cache, ad_fetched, ad_fn, ad_arg, ad_trace, ad_ret, ad_n>>
workerVars == <<cache_lock, cache_tx, w_pc, w_fn, w_out>>
geoVars == <<geo_in, geo_rsp, geo_ret, geo_n>>
searchVars == <<ms_fn, ms_trace, ms_made, ms_ret, ms_view, ms_n>>
batchVars == <<gb_heads, gb_chunk, gb_i, gb_f, gb_results, gb_calls, gb_pc>>
moreVars == <<geoVars, searchVars, batchVars, fetches>>
restVars == <<engVars, thrVars, cacheVars, workerVars, moreVars>>
vars == <<ddVars, budVars, thVars, pipeVars, restVars>>

(***************************************************************************)
(* Bounds of the model.                                                    *)
(***************************************************************************)
MaxLen == 3
\* budget_ok calls made by the single caller of SpecBudgetSeq
MaxCalls == 8
\* budget_ok calls made by the threads of SpecBudgetThreads, in all
MaxThreadCalls == 4
\* the configured ceilings run from 0 to MaxBudgetCents cents
MaxBudgetCents == 1
\* threads calling budget_ok concurrently
NThreads == 2

(***************************************************************************)
(* Python helpers.                                                         *)
(***************************************************************************)
\* str.lower() on one character of the model's alphabet
lower_char(c) ==
    CASE c = "A" -> "a"
      [] c = "B" -> "b"
      [] c = "U" -> "u"
      [] c = "V" -> "v"
      [] OTHER   -> c

\* str.lower()
lower(s) == [i \in DOMAIN s |-> lower_char(s[i])]

\* dict.get(k, d)
Get(r, k, d) == IF k \in DOMAIN r THEN r[k] ELSE d

\* Python's `x or y` on strings: the empty string is falsy
Or(x, y) == IF x # <<>> THEN x ELSE y

SeqsUpTo(S, n) == UNION {[1..k -> S] : k \in 0..n}

(***************************************************************************)
(* dedup, src/fetch_signals.py:107-116.                                    *)
(***************************************************************************)
\* line 110: t = (r.get("title","") or r.get("headline","")).lower()
dedup_t(r) == lower(Or(Get(r, "title", <<>>), Get(r, "headline", <<>>)))

\* line 111: u = r.get("url","").lower()
dedup_u(r) == lower(Get(r, "url", <<>>))

\* a row is compared with the wrong sets: a title is never a url
dedup_seen_swapped(t, u, seen_t, seen_u) == t \in seen_u \/ u \in seen_t

\* both collisions are required
dedup_seen_both(t, u, seen_t, seen_u) == t \in seen_t /\ u \in seen_u

\* line 112: if t in seen_t or u in seen_u: continue
dedup_seen(t, u, seen_t, seen_u) == t \in seen_t \/ u \in seen_u

RECURSIVE dedup_loop(_, _, _, _, _)
dedup_loop(rs, i, seen_t, seen_u, out) ==
    IF i > Len(rs) THEN out
    ELSE LET r == rs[i]
             t == dedup_t(r)
             u == dedup_u(r)
         IN  IF dedup_seen(t, u, seen_t, seen_u)
             THEN dedup_loop(rs, i + 1, seen_t, seen_u, out)
             ELSE dedup_loop(rs, i + 1, seen_t \cup {t}, seen_u \cup {u},
                             Append(out, r))

\* a row is compared with the row before it only, kept or not
RECURSIVE dedup_adjacent_loop(_, _, _)
dedup_adjacent_loop(rs, i, out) ==
    IF i > Len(rs) THEN out
    ELSE IF i > 1 /\ dedup_seen(dedup_t(rs[i]), dedup_u(rs[i]),
                                {dedup_t(rs[i - 1])}, {dedup_u(rs[i - 1])})
         THEN dedup_adjacent_loop(rs, i + 1, out)
         ELSE dedup_adjacent_loop(rs, i + 1, Append(out, rs[i]))

dedup_adjacent(rs) == dedup_adjacent_loop(rs, 1, <<>>)

\* the kept rows come out last-kept first
RECURSIVE dedup_reversed_loop(_)
dedup_reversed_loop(out) ==
    IF out = <<>> THEN <<>>
    ELSE Append(dedup_reversed_loop(Tail(out)), Head(out))

dedup_reversed(rs) == dedup_reversed_loop(dedup_loop(rs, 1, {}, {}, <<>>))

dedup(rs) == dedup_loop(rs, 1, {}, {}, <<>>)

(***************************************************************************)
(* The budget governor, src/fetch_signals.py:35-36 and 91-97.              *)
(***************************************************************************)
\* hundredths of a cent in a cent
CentUnits == 100
\* line 209: budget_ok(0.07)
COST_SIGNAL == 7
\* line 243: cost = 0.5
COST_SUMMARY == 50

Threads == 1..NThreads

\* line 35: DAILY_BUDGET = int(os.getenv("DAILY_BUDGET_CENTS", "300")): the
\* ceilings the environment may configure, in cents
BudgetCeilings == 0..MaxBudgetCents

\* non-negative costs a caller may pass
Costs == {0, COST_SIGNAL, COST_SUMMARY, CentUnits}

\* the cost is left out of the comparison
budget_exceeds_nocost(used, cost, ceiling) == used > ceiling * CentUnits

\* line 93: BUDGET_USED + cost > DAILY_BUDGET
budget_exceeds(used, cost, ceiling) == used + cost > ceiling * CentUnits

\* lines 91-97, run by one thread without interruption: the value returned
\* and the new value of BUDGET_USED
budget_ok(used, cost, ceiling) ==
    IF budget_exceeds(used, cost, ceiling)
    THEN [ret |-> FALSE, used |-> used]
    ELSE [ret |-> TRUE, used |-> used + cost]

\* the state of the budget variables when no budget specification runs
BudgetIdle ==
    /\ BUDGET_USED = 0
    /\ DAILY_BUDGET = 0
    /\ charged = 0
    /\ bo_n = 0
    /\ bo_ret = TRUE

ThreadsIdle ==
    /\ th_pc = [t \in Threads |-> "idle"]
    /\ th_cost = [t \in Threads |-> 0]
    /\ th_tmp = [t \in Threads |-> 0]

\* no transaction is open on a connection
NoTx == [active |-> FALSE]

\* no call of the text-analysis service
NoCall == [fn |-> "none"]

\* the empty clients table
NoClients == [n \in {} |-> "New"]

\* the empty signals table
NoSignals == [r \in {} |-> 0]

PipeIdle ==
    /\ dbLayout = "fresh"
    /\ db_clients = NoClients
    /\ db_signals = NoSignals
    /\ wlock = "none"
    /\ spc = "idle"
    /\ scans = 0
    /\ prospects = <<>>
    /\ infos = <<>>
    /\ bi = 0
    /\ fi = 0
    /\ by_co = <<>>
    /\ gi = 0
    /\ info = "none"
    /\ rows = <<>>
    /\ s_tx = NoTx
    /\ ext_call = NoCall
    /\ denied = FALSE
    /\ ui_pc = "idle"
    /\ ui_co = "none"
    /\ ui_picks = {}
    /\ ui_tx = NoTx
    /\ saves = 0

\* the extraction engine has not been called
EngIdle ==
    /\ eng_fn = "none"
    /\ eng_rsp = <<>>
    /\ eng_ret = [kind |-> "none"]
    /\ eng_n = 0

\* no thread is in gpt_summary; line 38: _LAST_SUMMARY = 0
ThrottleIdle ==
    /\ now = 0
    /\ LAST_SUMMARY = 0
    /\ sm_pc = [t \in Threads |-> "idle"]
    /\ sm_wake = [t \in Threads |-> 0]
    /\ passes = <<>>
    /\ sm_n = 0

\* the empty cache table
NoCache == [k \in {} |-> [data |-> <<>>, ts |-> 0]]

\* nothing has been fetched
NoFetched == [k \in {} |-> <<>>]

\* no call has been made
NoArg == [key |-> <<>>, ttl |-> 0]

\* no INSERT is pending on the connection _cache
NoCacheTx == [active |-> FALSE]

\* no fetch worker runs
WorkersIdle ==
    /\ cache_lock = 0
    /\ cache_tx = NoCacheTx
    /\ w_pc = [t \in Threads |-> "idle"]
    /\ w_fn = [t \in Threads |-> "none"]
    /\ w_out = [t \in Threads |-> <<>>]

\* no adapter has been called
CacheIdle ==
    /\ cache = NoCache
    /\ ad_fetched = NoFetched
    /\ ad_fn = "none"
    /\ ad_arg = NoArg
    /\ ad_trace = <<>>
    /\ ad_ret = [kind |-> "none"]
    /\ ad_n = 0

\* safe_geocode has not been called
GeoIdle ==
    /\ geo_in = [headline |-> <<>>, company |-> <<>>]
    /\ geo_rsp = <<>>
    /\ geo_ret = [kind |-> "none"]
    /\ geo_n = 0

\* the search overlay has not been opened
SearchIdle ==
    /\ ms_fn = "none"
    /\ ms_trace = <<>>
    /\ ms_made = <<>>
    /\ ms_ret = [kind |-> "none"]
    /\ ms_view = "none"
    /\ ms_n = 0

\* gpt_batch_signal_info has not been called
BatchIdle ==
    /\ gb_heads = <<>>
    /\ gb_chunk = 0
    /\ gb_i = 0
    /\ gb_f = 0
    /\ gb_results = <<>>
    /\ gb_calls = <<>>
    /\ gb_pc = "idle"

\* no session has sent a request
SessionsIdle == fetches = <<>>

MoreIdle == GeoIdle /\ SearchIdle /\ BatchIdle /\ SessionsIdle

RestIdle == EngIdle /\ ThrottleIdle /\ CacheIdle /\ WorkersIdle /\ MoreIdle

DedupIdle ==
    /\ dd_in = <<>>
    /\ dd_out = <<>>
    /\ dd_out2 = <<>>
    /\ dd_pc = "start"

\* line 36: BUDGET_USED = 0
InitBudgetVars ==
    /\ BUDGET_USED = 0
    /\ DAILY_BUDGET \in BudgetCeilings
    /\ charged = 0
    /\ bo_n = 0
    /\ bo_ret = TRUE

(***************************************************************************)
(* One thread calling budget_ok again and again.                           *)
(***************************************************************************)
InitBudgetSeq == InitBudgetVars /\ ThreadsIdle /\ DedupIdle /\ PipeIdle /\ RestIdle

BudgetCall(cost) ==
    /\ bo_n < MaxCalls
    /\ LET b == budget_ok(BUDGET_USED, cost, DAILY_BUDGET)
       IN  /\ BUDGET_USED' = b.used
           /\ bo_ret' = b.ret
           /\ charged' = IF b.ret THEN charged + cost ELSE charged
    /\ bo_n' = bo_n + 1
    /\ UNCHANGED <<DAILY_BUDGET, thVars, ddVars, pipeVars, restVars>>

NextBudgetSeq == \E cost \in Costs : BudgetCall(cost)

SpecBudgetSeq == InitBudgetSeq /\ [][NextBudgetSeq]_vars

(***************************************************************************)
(* Several threads calling budget_ok: the function takes no lock, so a     *)
(* thread may be preempted between the read of line 93, the read of line   *)
(* 96 and the write of line 96.                                            *)
(***************************************************************************)
InitBudgetThreads == InitBudgetVars /\ ThreadsIdle /\ DedupIdle /\ PipeIdle /\ RestIdle

\* a thread enters budget_ok(cost)
ThCall(t, cost) ==
    /\ th_pc[t] = "idle"
    /\ bo_n < MaxThreadCalls
    /\ bo_n' = bo_n + 1
    /\ th_pc' = [th_pc EXCEPT ![t] = "l93"]
    /\ th_cost' = [th_cost EXCEPT ![t] = cost]
    /\ UNCHANGED <<BUDGET_USED, DAILY_BUDGET, charged, bo_ret, th_tmp, ddVars, pipeVars, restVars>>

\* lines 93-95: the check fails, return False
ThDenied(t) ==
    /\ th_pc[t] = "l93"
    /\ budget_exceeds(BUDGET_USED, th_cost[t], DAILY_BUDGET)
    /\ th_pc' = [th_pc EXCEPT ![t] = "idle"]
    /\ bo_ret' = FALSE
    /\ UNCHANGED <<BUDGET_USED, DAILY_BUDGET, charged, bo_n, th_cost, th_tmp, ddVars, pipeVars, restVars>>

\* line 93: the check passes
ThPassed(t) ==
    /\ th_pc[t] = "l93"
    /\ ~ budget_exceeds(BUDGET_USED, th_cost[t], DAILY_BUDGET)
    /\ th_pc' = [th_pc EXCEPT ![t] = "l96"]
    /\ UNCHANGED <<budVars, th_cost, th_tmp, ddVars, pipeVars, restVars>>

\* line 96, BUDGET_USED += cost: load BUDGET_USED
ThLoad(t) ==
    /\ th_pc[t] = "l96"
    /\ th_tmp' = [th_tmp EXCEPT ![t] = BUDGET_USED]
    /\ th_pc' = [th_pc EXCEPT ![t] = "l96w"]
    /\ UNCHANGED <<budVars, th_cost, ddVars, pipeVars, restVars>>

\* line 96, BUDGET_USED += cost: store the sum; line 97: return True
ThStore(t) ==
    /\ th_pc[t] = "l96w"
    /\ BUDGET_USED' = th_tmp[t] + th_cost[t]
    /\ charged' = charged + th_cost[t]
    /\ bo_ret' = TRUE
    /\ th_pc' = [th_pc EXCEPT ![t] = "idle"]
    /\ th_tmp' = [th_tmp EXCEPT ![t] = 0]
    /\ UNCHANGED <<DAILY_BUDGET, bo_n, th_cost, ddVars, pipeVars, restVars>>

NextBudgetThreads ==
    \E t \in Threads :
        \/ \E cost \in Costs : ThCall(t, cost)
        \/ ThDenied(t)
        \/ ThPassed(t)
        \/ ThLoad(t)
        \/ ThStore(t)

SpecBudgetThreads == InitBudgetThreads /\ [][NextBudgetThreads]_vars

(***************************************************************************)
(* The rows dedup is called with: title-keyed rows (manual_search,         *)
(* permits.py) and headline-keyed rows (national_scan).                    *)
(***************************************************************************)
DedupTitles == {<<"A", "c">>, <<"a", "c">>, <<"a", "c", " ">>}
DedupUrls   == {<<"U">>, <<"u">>, <<"V">>}

DedupRows ==
    {[title |-> t, url |-> u] : t \in DedupTitles, u \in DedupUrls}
    \cup {[headline |-> <<"A", "c">>, url |-> <<"v">>],
          [title |-> <<>>, headline |-> <<"a", "c">>, url |-> <<"U">>],
          [title |-> <<"B">>]}

InitDedup ==
    /\ dd_in \in SeqsUpTo(DedupRows, MaxLen)
    /\ dd_out = <<>>
    /\ dd_out2 = <<>>
    /\ dd_pc = "start"
    /\ BudgetIdle /\ ThreadsIdle /\ PipeIdle /\ RestIdle

\* out = dedup(L)
DedupOnce ==
    /\ dd_pc = "start"
    /\ dd_out' = dedup(dd_in)
    /\ dd_pc' = "once"
    /\ UNCHANGED <<dd_in, dd_out2, budVars, thVars, pipeVars, restVars>>

\* out2 = dedup(dedup(L))
DedupTwice ==
    /\ dd_pc = "once"
    /\ dd_out2' = dedup(dd_out)
    /\ dd_pc' = "twice"
    /\ UNCHANGED <<dd_in, dd_out, budVars, thVars, pipeVars, restVars>>

NextDedup == DedupOnce \/ DedupTwice

SpecDedup == InitDedup /\ [][NextDedup]_vars

(***************************************************************************)
(* The store, src/utils.py:24-66, and what the pipeline reads from the     *)
(* outside world.                                                          *)
(*                                                                         *)
(* lead_master.db outlives the process: ensure_tables creates the tables   *)
(* only when they do not exist, so the file may hold rows, and statuses    *)
(* set by a user, from before.  A connection's INSERTs open a transaction  *)
(* implicitly (sqlite3's default isolation level) and stay invisible to    *)
(* every other connection until its commit(); a second connection that     *)
(* writes meanwhile finds the database locked.                             *)
(***************************************************************************)
\* runs of national_scan and of the "Save selected" handler, in all
MaxRuns == 2
\* articles the seeds of one scan return after the keyword filter, in all
MaxFetched == 2

\* line 39
RELEVANCE_CUTOFF == 45
\* line 181: chunk = 10
CHUNK == 10

\* company names the text-analysis service answers with
ExtCompanies == {"Acme"}
\* scores (in hundredths) the text-analysis service answers with
ExtScores == {20, 90}
\* clients.status values: 'New' is the only one the code writes
Statuses == {"New", "Contacted"}

\* lines 409-414: the rows national_scan builds from the fetched articles
ScanArticles ==
    {[headline |-> <<"A", "c">>, url |-> <<"U">>, src |-> "scan"],
     [headline |-> <<"A", "c", " ">>, url |-> <<"V">>, src |-> "scan"],
     [headline |-> <<"B">>, url |-> <<"U">>, src |-> "scan"]}

\* the contents lead_master.db may have when the program starts
InitialStores ==
    {[clients |-> NoClients, signals |-> NoSignals]}
    \cup {[clients |-> [n \in {"Acme"} |-> st],
           signals |-> [r \in {[company |-> "Acme", headline |-> <<"O">>]} |-> 1]] :
          st \in Statuses \ {"New"}}

Range(f) == {f[i] : i \in DOMAIN f}
Min(a, b) == IF a < b THEN a ELSE b

\* None, where a headline is expected
None == <<"None">>

\* utils.py:29-42: the clients table ensure_tables creates has no lat and
\* no lon column; a file from before may have them
ClientsHasLatLon == dbLayout = "extended"

\* utils.py:24-66: ensure_tables creates no contacts table
HasContactsTable == dbLayout = "extended"

\* what a SELECT on another connection returns (app.py:181-186, 204-222)
ReaderView == [clients |-> db_clients, signals |-> db_signals]

\* INSERT OR REPLACE INTO clients(name, ..., status) VALUES (co, ..., st)
UpsertClient(clients, co, st) ==
    [n \in DOMAIN clients \cup {co} |-> IF n = co THEN st ELSE clients[n]]

\* INSERT INTO signals(...) of one row: the table has no constraint but
\* the autoincremented id (utils.py:45-56), so a copy is added
InsertSignal(signals, r) ==
    [x \in DOMAIN signals \cup {r} |->
        IF x = r THEN (IF r \in DOMAIN signals THEN signals[r] + 1 ELSE 1)
        ELSE signals[x]]

\* one INSERT INTO signals per row of rs, in order
RECURSIVE InsertSignals(_, _)
InsertSignals(signals, rs) ==
    IF rs = <<>> THEN signals
    ELSE InsertSignals(InsertSignal(signals, Head(rs)), Tail(rs))

\* the tables as the connection with transaction tx sees them
Working(tx) ==
    IF tx.active THEN tx ELSE [active |-> TRUE, clients |-> db_clients,
                               signals |-> db_signals]

(***************************************************************************)
(* The extraction engine, src/fetch_signals.py:181-269.                    *)
(***************************************************************************)
\* line 184: batch = headlines[i:i+chunk]
Batch(heads, i) == SubSeq(heads, i + 1, Min(i + CHUNK, Len(heads)))

\* the JSON arrays the service may answer a batch with
BatchItems(batch) ==
    {[headline |-> h, company |-> c, score |-> sc] :
        h \in Range(batch), c \in ExtCompanies, sc \in ExtScores}
    \cup {[headline |-> h, score |-> 90] : h \in Range(batch)}

BatchArrays(batch) == SeqsUpTo(BatchItems(batch), Len(batch))

\* lines 196-197: item["score"] = float(item.get("score",0) or 0)
NormItem(item) ==
    [k \in DOMAIN item \cup {"score"} |->
        IF k = "score" THEN Get(item, "score", 0) ELSE item[k]]

\* lines 210, 222, 230
SignalDefault == [company |-> "Unknown", score |-> 0]

\* lines 224-228: what gpt_signal_info returns for a parsed answer
SignalAnswers == {[company |-> c, score |-> sc] : c \in ExtCompanies, sc \in ExtScores}

\* line 205: {"headline": h, **tmp}
WithHeadline(h, tmp) == [headline |-> h, company |-> tmp.company, score |-> tmp.score]

\* national_scan line 432: [p["headline"] for p in prospects]
Heads(ps) == [i \in DOMAIN ps |-> ps[i].headline]

\* the position after a chunk is done: the next chunk, or the grouping
AfterChunk(i, n) == IF i + CHUNK < n THEN "batch" ELSE "group"

(***************************************************************************)
(* Grouping, src/fetch_signals.py:434-444.                                 *)
(***************************************************************************)
\* line 441 with the comparison of the score turned round
info_matches_below(inf, p) ==
    /\ Get(inf, "headline", None) = p.headline
    /\ Get(inf, "score", 0) < RELEVANCE_CUTOFF

\* lines 438-441: inf.get("headline") == p["headline"] and sc >= RELEVANCE_CUTOFF
info_matches(inf, p) ==
    /\ Get(inf, "headline", None) = p.headline
    /\ Get(inf, "score", 0) >= RELEVANCE_CUTOFF

\* lines 442-443: p["company"] = ...; by_co[p["company"]].append(p)
AddToGroup(groups, co, p) ==
    LET q == [k \in DOMAIN p \cup {"company"} |-> IF k = "company" THEN co ELSE p[k]]
    IN  IF \E k \in DOMAIN groups : groups[k].co = co
        THEN [k \in DOMAIN groups |->
                IF groups[k].co = co
                THEN [co |-> co, items |-> Append(groups[k].items, q)]
                ELSE groups[k]]
        ELSE Append(groups, [co |-> co, items |-> <<q>>])

RECURSIVE group_loop(_, _, _, _)
group_loop(ps, infs, i, groups) ==
    IF i > Len(ps) THEN groups
    ELSE LET hits == {k \in DOMAIN infs : info_matches(infs[k], ps[i])}
         IN  IF hits = {} THEN group_loop(ps, infs, i + 1, groups)
             ELSE LET first == CHOOSE k \in hits : \A m \in hits : k <= m
                  IN  group_loop(ps, infs, i + 1,
                          AddToGroup(groups, Get(infs[first], "company", "Unknown"), ps[i]))

\* lines 434-444
group_by_company(ps, infs) == group_loop(ps, infs, 1, <<>>)

(***************************************************************************)
(* national_scan, src/fetch_signals.py:396-494, run by one session thread. *)
(***************************************************************************)
\* a call of the text-analysis service: the function making it, and what
\* the budget_ok call of that function returned ("none": it makes no such
\* call)
ExtCall(fn, gate) == [fn |-> fn, gate |-> gate, after_denial |-> denied]

\* an exception leaves national_scan: its locals are gone, its connection
\* is dropped and the open transaction rolled back
ScanRaises ==
    /\ spc' = "raised"
    /\ s_tx' = NoTx
    /\ wlock' = IF wlock = "scan" THEN "none" ELSE wlock
    /\ by_co' = <<>> /\ gi' = 0 /\ info' = "none" /\ rows' = <<>>

\* lines 397-431: connect, ensure_tables, fetch the seeds, dedup
ScanStart ==
    /\ spc \in {"idle", "done", "raised"}
    /\ scans + saves < MaxRuns
    /\ scans' = scans + 1
    /\ \E fetched \in SeqsUpTo(ScanArticles, MaxFetched) :
        /\ prospects' = dedup(fetched)
        /\ spc' = IF dedup(fetched) = <<>> THEN "group" ELSE "batch"
    /\ infos' = <<>> /\ bi' = 0 /\ fi' = 0 /\ by_co' = <<>> /\ gi' = 0
    /\ info' = "none" /\ rows' = <<>> /\ s_tx' = NoTx
    /\ ext_call' = NoCall
    /\ UNCHANGED <<dbVars, denied, uiVars, budVars, thVars, ddVars, restVars>>

\* lines 183-201: the batched call of one chunk; no budget_ok precedes it
ScanBatchCall ==
    /\ spc = "batch"
    /\ ext_call' = ExtCall("batch", "none")
    /\ LET batch == Batch(Heads(prospects), bi)
       IN  \/ \E arr \in BatchArrays(batch) :
                /\ infos' = infos \o [k \in DOMAIN arr |-> NormItem(arr[k])]
                /\ bi' = bi + CHUNK
                /\ spc' = AfterChunk(bi, Len(prospects))
                /\ fi' = fi
           \/ \* rate limit (safe_chat returns None) or unparsable answer
              /\ spc' = "fallback"
              /\ fi' = 1
              /\ UNCHANGED <<infos, bi>>
    /\ UNCHANGED <<dbVars, scans, prospects, by_co, gi, info, rows, s_tx,
                   denied, uiVars, budVars, thVars, ddVars, restVars>>

\* lines 203-205: the fallback loop moves to the next headline of the chunk
FallbackAdvance(batch) ==
    IF fi < Len(batch)
    THEN fi' = fi + 1 /\ bi' = bi /\ spc' = "fallback"
    ELSE fi' = 0 /\ bi' = bi + CHUNK /\ spc' = AfterChunk(bi, Len(prospects))

\* lines 208-210: gpt_signal_info, budget_ok(0.07) returns False
ScanSignalDenied ==
    /\ spc = "fallback"
    /\ ~ budget_ok(BUDGET_USED, COST_SIGNAL, DAILY_BUDGET).ret
    /\ LET batch == Batch(Heads(prospects), bi)
       IN  /\ infos' = Append(infos, WithHeadline(batch[fi], SignalDefault))
           /\ FallbackAdvance(batch)
    /\ denied' = TRUE
    /\ ext_call' = NoCall
    /\ UNCHANGED <<dbVars, scans, prospects, by_co, gi, info, rows, s_tx,
                   uiVars, budVars, thVars, ddVars, restVars>>

\* lines 208-230: gpt_signal_info, budget_ok(0.07) returns True
ScanSignalCall ==
    /\ spc = "fallback"
    /\ LET b == budget_ok(BUDGET_USED, COST_SIGNAL, DAILY_BUDGET)
           batch == Batch(Heads(prospects), bi)
       IN  /\ b.ret
           /\ BUDGET_USED' = b.used
           /\ charged' = charged + COST_SIGNAL
           /\ \E tmp \in SignalAnswers \cup {SignalDefault} :
                infos' = Append(infos, WithHeadline(batch[fi], tmp))
           /\ FallbackAdvance(batch)
    /\ ext_call' = ExtCall("signal", "ok")
    /\ UNCHANGED <<dbVars, scans, prospects, by_co, gi, info, rows, s_tx,
                   denied, uiVars, DAILY_BUDGET, bo_n, bo_ret, thVars, ddVars, restVars>>

\* lines 434-444
ScanGroup ==
    /\ spc = "group"
    /\ by_co' = group_by_company(prospects, infos)
    /\ gi' = 1
    /\ spc' = IF group_by_company(prospects, infos) = <<>> THEN "write" ELSE "summary"
    /\ \* prospects, infos and the loop counters are not read again
       prospects' = <<>> /\ infos' = <<>> /\ bi' = 0 /\ fi' = 0
    /\ ext_call' = NoCall
    /\ UNCHANGED <<dbVars, scans, info, rows, s_tx,
                   denied, uiVars, budVars, thVars, ddVars, restVars>>

\* lines 233-245: gpt_summary, budget_ok(0.5) returns False
ScanSummaryDenied ==
    /\ spc = "summary"
    /\ ~ budget_ok(BUDGET_USED, COST_SUMMARY, DAILY_BUDGET).ret
    /\ info' = "fallback"
    /\ denied' = TRUE
    /\ spc' = "contacts"
    /\ ext_call' = NoCall
    /\ UNCHANGED <<dbVars, scans, prospects, infos, bi, fi, by_co, gi, rows,
                   s_tx, uiVars, budVars, thVars, ddVars, restVars>>

\* lines 233-269: gpt_summary, budget_ok(0.5) returns True
ScanSummaryCall ==
    /\ spc = "summary"
    /\ LET b == budget_ok(BUDGET_USED, COST_SUMMARY, DAILY_BUDGET)
       IN  /\ b.ret
           /\ BUDGET_USED' = b.used
           /\ charged' = charged + COST_SUMMARY
    /\ ext_call' = ExtCall("summary", "ok")
    /\ info' \in {"gpt", "fallback"}
    /\ spc' = "contacts"
    /\ UNCHANGED <<dbVars, scans, prospects, infos, bi, fi, by_co, gi, rows,
                   s_tx, denied, uiVars, DAILY_BUDGET, bo_n, bo_ret, thVars, ddVars, restVars>>

\* lines 455-467: company_contacts (no budget_ok precedes its call) and the
\* INSERT OR IGNORE INTO contacts of every contact returned
ScanContacts ==
    /\ spc = "contacts"
    /\ ext_call' = ExtCall("contacts", "none")
    /\ \/ \* no contact returned
          /\ spc' = "upsert"
          /\ UNCHANGED <<s_tx, wlock, by_co, gi, info, rows>>
       \/ \* some contact returned, no such table: OperationalError
          /\ ~ HasContactsTable
          /\ ScanRaises
       \/ \* some contact returned and inserted
          /\ HasContactsTable
          /\ wlock \in {"none", "scan"}
          /\ s_tx' = Working(s_tx)
          /\ wlock' = "scan"
          /\ spc' = "upsert"
          /\ UNCHANGED <<by_co, gi, info, rows>>
    /\ UNCHANGED <<dbLayout, db_clients, db_signals, scans, prospects, infos,
                   bi, fi, denied, uiVars, budVars, thVars, ddVars, restVars>>

\* lines 483-491: the items of a group, as appended to rows
GroupRows(g) == [k \in DOMAIN g.items |->
                    [company |-> g.items[k].company, headline |-> g.items[k].headline]]

\* lines 469-491: geocode, INSERT OR REPLACE INTO clients(..., status, lat,
\* lon) with status 'New', append the group's items to rows
ScanUpsert ==
    /\ spc = "upsert"
    /\ \/ \* table clients has no column named lat: OperationalError
          /\ ~ ClientsHasLatLon
          /\ ScanRaises
       \/ \* the summary of the service's JSON answer is an object, which
          \* sqlite3 cannot bind as a parameter: InterfaceError
          /\ ClientsHasLatLon
          /\ info = "gpt"
          /\ ScanRaises
       \/ /\ ClientsHasLatLon
          /\ wlock \in {"none", "scan"}
          /\ s_tx' = [Working(s_tx) EXCEPT
                        !.clients = UpsertClient(@, by_co[gi].co, "New")]
          /\ wlock' = "scan"
          /\ rows' = rows \o GroupRows(by_co[gi])
          /\ gi' = gi + 1
          /\ info' = "none"
          /\ by_co' = by_co
          /\ spc' = IF gi < Len(by_co) THEN "summary" ELSE "write"
    /\ ext_call' = NoCall
    /\ UNCHANGED <<dbLayout, db_clients, db_signals, scans, prospects, infos,
                   bi, fi, denied, uiVars, budVars, thVars, ddVars, restVars>>

\* an INSERT of national_scan finds the database locked by the dashboard's
\* connection until the busy timeout expires: OperationalError
ScanBusy ==
    /\ spc \in {"contacts", "upsert"}
    /\ spc = "contacts" => HasContactsTable
    /\ spc = "upsert" => ClientsHasLatLon
    /\ wlock = "ui"
    /\ ScanRaises
    /\ ext_call' = IF spc = "contacts" THEN ExtCall("contacts", "none") ELSE NoCall
    /\ UNCHANGED <<dbLayout, db_clients, db_signals, scans, prospects, infos,
                   bi, fi, denied, uiVars, budVars, thVars, ddVars, restVars>>

\* lines 99-104: client.chat.completions.create raises an error other than
\* RateLimitError (connection, timeout, API status); safe_chat does not
\* catch it and neither does any of its callers, so it leaves national_scan.
\* gpt_signal_info and gpt_summary have charged the budget before the call.
ScanServiceError ==
    /\ spc \in {"batch", "fallback", "summary", "contacts"}
    /\ LET cost == CASE spc = "fallback" -> COST_SIGNAL
                     [] spc = "summary" -> COST_SUMMARY
                     [] OTHER -> 0
           gated == spc \in {"fallback", "summary"}
           fn == CASE spc = "batch" -> "batch"
                   [] spc = "fallback" -> "signal"
                   [] spc = "summary" -> "summary"
                   [] OTHER -> "contacts"
       IN  /\ gated => budget_ok(BUDGET_USED, cost, DAILY_BUDGET).ret
           /\ BUDGET_USED' = BUDGET_USED + cost
           /\ charged' = charged + cost
           /\ ext_call' = ExtCall(fn, IF gated THEN "ok" ELSE "none")
    /\ ScanRaises
    /\ prospects' = <<>> /\ infos' = <<>> /\ bi' = 0 /\ fi' = 0
    /\ UNCHANGED <<dbLayout, db_clients, db_signals, scans, denied, uiVars,
                   DAILY_BUDGET, bo_n, bo_ret, thVars, ddVars, restVars>>

\* only the signals of the transaction become visible
CommitSignalsOnly(tx) ==
    IF tx.active THEN [clients |-> db_clients, signals |-> tx.signals]
    ELSE [clients |-> db_clients, signals |-> db_signals]

\* conn.commit(): the tables every connection sees from then on
Commit(tx) ==
    IF tx.active THEN [clients |-> tx.clients, signals |-> tx.signals]
    ELSE [clients |-> db_clients, signals |-> db_signals]

\* lines 383-394 and 493-494: write_signals, one INSERT per row, then
\* commit; national_scan returns and its locals are gone
ScanWriteSignals ==
    /\ spc = "write"
    /\ LET tx == IF rows = <<>> THEN s_tx
                 ELSE [Working(s_tx) EXCEPT !.signals = InsertSignals(@, rows)]
       IN  /\ db_clients' = Commit(tx).clients
           /\ db_signals' = Commit(tx).signals
    /\ wlock' = IF wlock = "scan" THEN "none" ELSE wlock
    /\ s_tx' = NoTx
    /\ spc' = "done"
    /\ by_co' = <<>> /\ gi' = 0 /\ info' = "none" /\ rows' = <<>>
    /\ ext_call' = NoCall
    /\ UNCHANGED <<dbLayout, scans, prospects, infos, bi, fi,
                   denied, uiVars, budVars, thVars, ddVars, restVars>>

(***************************************************************************)
(* The search overlay's "Save selected" handler, src/app.py:146-171, run   *)
(* by another session thread on its own connection (app.py:103).  The      *)
(* overlay reaches the handler with "Show all headlines" ticked.           *)
(***************************************************************************)
\* app.py:123-124: rows, in the order google_news returned them
UiRows == <<<<"A", "c">>, <<"B">>>>

\* app.py:148-158: one signals row per ticked row, in the order of rows
RECURSIVE SavedRows(_, _, _)
SavedRows(co, picks, i) ==
    IF i > Len(UiRows) THEN <<>>
    ELSE (IF i \in picks THEN <<[company |-> co, headline |-> UiRows[i]]>> ELSE <<>>)
         \o SavedRows(co, picks, i + 1)

\* app.py:146-158 and 170-171: INSERT INTO signals for every ticked row;
\* with no row ticked nothing is written
UiSaveSignals ==
    /\ ui_pc = "idle"
    /\ scans + saves < MaxRuns
    /\ saves' = saves + 1
    /\ \E co \in ExtCompanies, picks \in SUBSET (DOMAIN UiRows) :
        \/ /\ picks = {}
           /\ UNCHANGED <<ui_pc, ui_co, ui_picks, ui_tx, wlock>>
        \/ /\ picks # {}
           /\ wlock = "none"
           /\ wlock' = "ui"
           /\ ui_tx' = [Working(ui_tx) EXCEPT
                          !.signals = InsertSignals(@, SavedRows(co, picks, 1))]
           /\ ui_co' = co
           /\ ui_picks' = picks
           /\ ui_pc' = "client"
    /\ UNCHANGED <<dbLayout, db_clients, db_signals, scanVars, extVars,
                   budVars, thVars, ddVars, restVars>>

\* the first INSERT of the handler finds the database locked by
\* national_scan's connection until the busy timeout expires:
\* OperationalError, the handler is left
UiBusy ==
    /\ ui_pc = "idle"
    /\ scans + saves < MaxRuns
    /\ wlock = "scan"
    /\ saves' = saves + 1
    /\ UNCHANGED <<dbVars, scanVars, extVars, ui_pc, ui_co, ui_picks, ui_tx,
                   budVars, thVars, ddVars, restVars>>

\* app.py:159-164: INSERT OR REPLACE INTO clients(name, summary,
\* sector_tags, status) with status 'New'
UiSaveClient ==
    /\ ui_pc = "client"
    /\ ui_tx' = [ui_tx EXCEPT !.clients = UpsertClient(@, ui_co, "New")]
    /\ ui_pc' = "commit"
    /\ UNCHANGED <<dbVars, scanVars, extVars, ui_co, ui_picks, saves,
                   budVars, thVars, ddVars, restVars>>

\* app.py:165-169: conn.commit(), leave the overlay
UiCommit ==
    /\ ui_pc = "commit"
    /\ db_clients' = Commit(ui_tx).clients
    /\ db_signals' = Commit(ui_tx).signals
    /\ wlock' = "none"
    /\ ui_tx' = NoTx
    /\ ui_pc' = "idle"
    /\ ui_co' = "none"
    /\ ui_picks' = {}
    /\ UNCHANGED <<dbLayout, scanVars, extVars, saves, budVars, thVars, ddVars, restVars>>

(***************************************************************************)
(* The pipeline: one session running national_scan, another saving from    *)
(* the search overlay, every other connection reading.                     *)
(***************************************************************************)
Init ==
    /\ InitBudgetVars
    /\ ThreadsIdle
    /\ DedupIdle
    /\ RestIdle
    /\ dbLayout \in {"fresh", "extended"}
    /\ \E st \in InitialStores :
        /\ db_clients = st.clients
        /\ db_signals = st.signals
    /\ wlock = "none"
    /\ spc = "idle" /\ scans = 0 /\ prospects = <<>> /\ infos = <<>>
    /\ bi = 0 /\ fi = 0 /\ by_co = <<>> /\ gi = 0 /\ info = "none"
    /\ rows = <<>> /\ s_tx = NoTx
    /\ ext_call = NoCall /\ denied = FALSE
    /\ ui_pc = "idle" /\ ui_co = "none" /\ ui_picks = {} /\ ui_tx = NoTx
    /\ saves = 0

Next ==
    \/ ScanStart
    \/ ScanBatchCall
    \/ ScanSignalDenied
    \/ ScanSignalCall
    \/ ScanGroup
    \/ ScanSummaryDenied
    \/ ScanSummaryCall
    \/ ScanContacts
    \/ ScanUpsert
    \/ ScanBusy
    \/ ScanServiceError
    \/ ScanWriteSignals
    \/ UiSaveSignals
    \/ UiBusy
    \/ UiSaveClient
    \/ UiCommit

Spec == Init /\ [][Next]_vars

(***************************************************************************)
(* Claims about dedup, checked under SpecDedup.                            *)
(***************************************************************************)
\* the lowercase (headline text, url) pair of a row
LowerPair(r) == <<dedup_t(r), dedup_u(r)>>

\* two rows collide when their lowercase headline texts or their lowercase
\* urls are equal
Collide(a, b) == dedup_t(a) = dedup_t(b) \/ dedup_u(a) = dedup_u(b)

\* the rows of rs at the indices K, in the order of rs
Pick(rs, K) ==
    LET F[i \in 0..Len(rs)] ==
            IF i = 0 THEN <<>>
            ELSE IF i \in K THEN Append(F[i - 1], rs[i]) ELSE F[i - 1]
    IN  F[Len(rs)]

\* K is the set of kept indices: an index is kept exactly when its row
\* collides with no earlier kept row
KeptSet(rs, K) ==
    \A i \in 1..Len(rs) :
        i \in K <=> ~ \E j \in K : j < i /\ Collide(rs[j], rs[i])

\* C8: no two elements of dedup(L) share the same lowercase
\* (headline text, url) pair.
C8_DedupUniquePairs ==
    dd_pc # "start" =>
        \A i, j \in 1..Len(dd_out) :
            i # j => LowerPair(dd_out[i]) # LowerPair(dd_out[j])

\* dedup has run on a list holding a duplicate and two distinct rows
C8_Witness ==
    /\ dd_pc = "once"
    /\ Len(dd_out) >= 2
    /\ \E i, j \in 1..Len(dd_in) : i # j /\ LowerPair(dd_in[i]) = LowerPair(dd_in[j])

\* C9: dedup is idempotent: dedup(dedup(L)) = dedup(L), same elements in the
\* same order.
C9_DedupIdempotent == dd_pc = "twice" => dd_out2 = dd_out

\* dedup has run twice on a list from which the first run dropped a row
C9_Witness ==
    /\ dd_pc = "twice"
    /\ Len(dd_out) >= 2
    /\ Len(dd_out) < Len(dd_in)

\* C10 as stated: a row is dropped exactly when its lowercase headline text
\* or its lowercase url equals that of any earlier row of the input list.
C10_DropsOnAnyEarlierRow ==
    dd_pc # "start" =>
        dd_out = Pick(dd_in, {i \in 1..Len(dd_in) :
                        ~ \E j \in 1..(i - 1) : Collide(dd_in[j], dd_in[i])})

\* C10 as amended: a row is dropped exactly when its lowercase headline text
\* or its lowercase url equals that of an earlier row of the input list that
\* dedup kept; either collision alone drops it.
C10_DropsOnEarlierKeptRow ==
    dd_pc # "start" =>
        \E K \in SUBSET (1..Len(dd_in)) :
            KeptSet(dd_in, K) /\ dd_out = Pick(dd_in, K)

\* dedup has dropped a row for its url alone, and kept a later row that has
\* the dropped row's headline text
C10_Witness ==
    /\ dd_pc = "once"
    /\ Len(dd_in) = 3 /\ Len(dd_out) = 2
    /\ dedup_u(dd_in[2]) = dedup_u(dd_in[1])
    /\ dedup_t(dd_in[2]) # dedup_t(dd_in[1])
    /\ dedup_t(dd_in[3]) = dedup_t(dd_in[2])
    /\ dd_out = <<dd_in[1], dd_in[3]>>

(***************************************************************************)
(* Claims about the budget governor.                                       *)
(***************************************************************************)
\* C1: under sequential budget_ok calls with non-negative costs, the sum of
\* the costs of the calls that returned True never exceeds DAILY_BUDGET,
\* BUDGET_USED is that sum and never exceeds DAILY_BUDGET, and a call that
\* returns False leaves BUDGET_USED unchanged.  Checked under SpecBudgetSeq.
C1_BudgetCeiling ==
    /\ [](/\ charged <= DAILY_BUDGET * CentUnits
          /\ BUDGET_USED <= DAILY_BUDGET * CentUnits
          /\ BUDGET_USED = charged)
    /\ [][bo_n' # bo_n /\ ~ bo_ret' => BUDGET_USED' = BUDGET_USED]_vars

\* a call was refused after calls that were charged
C1_Witness ==
    /\ bo_n >= 3
    /\ ~ bo_ret
    /\ charged > 0
    /\ DAILY_BUDGET > 0

\* C2: when several threads call budget_ok concurrently, under every
\* interleaving the sum of the costs for which True was returned never
\* exceeds DAILY_BUDGET, and once the calls have returned BUDGET_USED equals
\* that sum (no lost update).  Checked under SpecBudgetThreads.
C2_BudgetAtomic ==
    /\ charged <= DAILY_BUDGET * CentUnits
    /\ (\A t \in Threads : th_pc[t] = "idle") => BUDGET_USED = charged

(***************************************************************************)
(* Claims about the pipeline, checked under Spec.                          *)
(***************************************************************************)
\* C3: every call to the text-analysis service made by gpt_batch_signal_info
\* (batched), gpt_signal_info (per headline) or gpt_summary is preceded by a
\* budget_ok charge that returned True, and no such call is made once
\* budget_ok has returned False.
C3_ExternalCallsGated ==
    ext_call.fn \in {"batch", "signal", "summary"} =>
        ext_call.gate = "ok" /\ ~ ext_call.after_denial

\* C4: persisting signals is idempotent: no two signals rows share the same
\* (company, headline), whatever write path ran and however often.
C4_NoDuplicateSignals ==
    \A r \in DOMAIN ReaderView.signals : ReaderView.signals[r] = 1

\* C5: the pipeline never changes the status of an existing Company Profile:
\* a clients row that exists keeps its status in every step.
C5_StatusPreserved ==
    [][\A n \in DOMAIN db_clients :
          n \in DOMAIN db_clients' /\ db_clients'[n] = db_clients[n]]_vars

\* C6: a reader on its own connection never sees a signals row whose company
\* has no clients row, nor a clients row without any signals row: a
\* company's profile and its signals become visible in the same commit.
C6_ReaderConsistent ==
    /\ \A r \in DOMAIN ReaderView.signals : r.company \in DOMAIN ReaderView.clients
    /\ \A n \in DOMAIN ReaderView.clients :
          \E r \in DOMAIN ReaderView.signals : r.company = n

\* national_scan has committed a company of its own while the dashboard's
\* connection holds uncommitted signals of a company that has no profile
C6_Witness ==
    /\ "Unknown" \in DOMAIN db_clients
    /\ ui_pc = "client"
    /\ ui_co \notin DOMAIN db_clients
    /\ \E r \in DOMAIN ui_tx.signals : r.company = ui_co

\* C7: with the tables ensure_tables creates, a national_scan that has
\* aggregated at least one group completes, and then clients has a row for
\* every group's company and signals a row for every item of every group;
\* no step removes a company name from clients.
C7_ScanWritesGroups ==
    [][/\ (/\ dbLayout = "fresh"
           /\ by_co # <<>>
           /\ spc' \in {"done", "raised"})
          => /\ spc' = "done"
             /\ \A k \in DOMAIN by_co :
                  /\ by_co[k].co \in DOMAIN db_clients'
                  /\ \A r \in Range(GroupRows(by_co[k])) : r \in DOMAIN db_signals'
       /\ DOMAIN db_clients \subseteq DOMAIN db_clients']_vars

(***************************************************************************)
(* Further claims about dedup, checked under SpecDedup.                    *)
(***************************************************************************)
\* C11: dedup is stable: its output is a subsequence of its input (the
\* survivors keep their relative order), and each survivor is the first row
\* of the input that carries both its title and its url.
C11_DedupStable ==
    dd_pc # "start" =>
        \E K \in SUBSET (1..Len(dd_in)) :
            /\ dd_out = Pick(dd_in, K)
            /\ \A i \in K : \A j \in 1..(i - 1) :
                  LowerPair(dd_in[j]) # LowerPair(dd_in[i])

\* dedup has dropped the middle row of three, a copy of the first
C11_Witness ==
    /\ dd_pc = "once"
    /\ Len(dd_in) = 3
    /\ LowerPair(dd_in[2]) = LowerPair(dd_in[1])
    /\ LowerPair(dd_in[3]) # LowerPair(dd_in[1])
    /\ dd_out = <<dd_in[1], dd_in[3]>>

(***************************************************************************)
(* Further claims about the pipeline, checked under Spec.                  *)
(***************************************************************************)
\* a headline without its trailing whitespace
RECURSIVE rstrip(_)
rstrip(s) ==
    IF s # <<>> /\ s[Len(s)] = " " THEN rstrip(SubSeq(s, 1, Len(s) - 1)) ELSE s

\* the signals rows a step adds to the committed table
AddedSignals ==
    {r \in DOMAIN db_signals' :
        r \notin DOMAIN db_signals \/ db_signals'[r] > db_signals[r]}

\* C12: given two candidates whose headlines differ only by trailing
\* whitespace and whose urls differ, national_scan (dedup, extraction,
\* write_signals) persists exactly one Signal Event for that headline text:
\* no two rows it commits differ only by the trailing whitespace of their
\* headlines.
C12_OneSignalPerHeadlineText ==
    [][spc = "write" /\ spc' = "done" =>
          \A r1, r2 \in AddedSignals :
              (r1.company = r2.company /\ rstrip(r1.headline) = rstrip(r2.headline))
                  => r1 = r2]_vars

(***************************************************************************)
(* The extraction engine called on its own, src/fetch_signals.py:99-269:   *)
(* safe_chat, gpt_signal_info, gpt_batch_signal_info and gpt_summary for   *)
(* every way the text-analysis service may answer.  Scores and confidences *)
(* are counted in hundredths.                                              *)
(***************************************************************************)
\* calls of the engine made by the caller of SpecEngine, in all
MaxEngCalls == 3

\* numbers the service may put under "score" or "confidence"
JsonNumbers == {-30, 0, 90, 170}

\* JSON values under "score" or "confidence": a number, a string that is
\* not a number, null
JsonValues ==
    {[t |-> "num", v |-> n] : n \in JsonNumbers}
    \cup {[t |-> "str", v |-> 0], [t |-> "null", v |-> 0]}

\* lines 197, 227, 265: float(x or 0); ok is FALSE when float raises
\* ValueError
float_or_0(x) ==
    [ok |-> x.t # "str", v |-> IF x.t = "num" THEN x.v ELSE 0]

\* the JSON objects the service may answer gpt_signal_info with
SignalBodies ==
    {[company |-> c, score |-> x] : c \in ExtCompanies, x \in JsonValues}
    \cup {[company |-> c] : c \in ExtCompanies}
    \cup {[score |-> [t |-> "num", v |-> 90]]}

\* the JSON arrays the service may answer a batch of one headline with
BatchBodies(h) ==
    {<<>>} \cup
    {<<[k \in DOMAIN b \cup {"headline"} |-> IF k = "headline" THEN h ELSE b[k]]>> :
        b \in SignalBodies}

\* the JSON objects the service may answer gpt_summary with; their sector
\* and land_flag, which int() of line 266 accepts, are left out
SummaryBodies ==
    {[summary |-> "gpt", confidence |-> x] : x \in JsonValues}
    \cup {[summary |-> "gpt"]}

\* what client.chat.completions.create does: it raises RateLimitError, it
\* raises another error (connection, timeout, API status), it returns text
\* that is not JSON, or it returns one of the JSON bodies
ServiceOutcomes(bodies) ==
    {[kind |-> "ratelimit"], [kind |-> "neterror"], [kind |-> "text"]}
    \cup {[kind |-> "json", body |-> b] : b \in bodies}

FailureKinds == {"ratelimit", "neterror", "text"}

Raised == [kind |-> "raised"]
Returned(v) == [kind |-> "returned", val |-> v]

\* every exception of the client is caught
safe_chat_catch_all(o) ==
    IF o.kind \in {"ratelimit", "neterror"} THEN [kind |-> "None"] ELSE o

\* lines 99-104: only RateLimitError is caught; any other exception leaves
\* safe_chat
safe_chat(o) ==
    IF o.kind = "ratelimit" THEN [kind |-> "None"]
    ELSE IF o.kind = "neterror" THEN Raised
    ELSE o

\* lines 208-230; gate is what budget_ok(0.07) returned
gpt_signal_info(gate, o) ==
    IF ~ gate THEN Returned(SignalDefault)
    ELSE LET rsp == safe_chat(o)
         IN  IF rsp.kind = "raised" THEN Raised
             ELSE IF rsp.kind \in {"None", "text"} THEN Returned(SignalDefault)
             ELSE LET f == float_or_0(Get(rsp.body, "score", [t |-> "num", v |-> 0]))
                  IN  IF ~ f.ok THEN Returned(SignalDefault)
                      ELSE Returned([company |-> Get(rsp.body, "company", "Unknown"),
                                     score |-> f.v])

\* lines 244-245, 260-261: the fallback summary, the first headline cut to
\* 120 characters
SummaryFallback == [summary |-> "heads[0]", confidence |-> 0]

\* line 269: the raw content of the answer as the summary
SummaryContent == [summary |-> "content", confidence |-> 0]

\* lines 233-269 without the throttle; no_heads: heads is empty; gate is
\* what budget_ok(0.5) returned
gpt_summary(no_heads, gate, o) ==
    IF no_heads THEN Returned([summary |-> "No signals", confidence |-> 0])
    ELSE IF ~ gate THEN Returned(SummaryFallback)
    ELSE LET rsp == safe_chat(o)
         IN  IF rsp.kind = "raised" THEN Raised
             ELSE IF rsp.kind = "None" THEN Returned(SummaryFallback)
             ELSE IF rsp.kind = "text" THEN Returned(SummaryContent)
             ELSE LET f == float_or_0(Get(rsp.body, "confidence", [t |-> "num", v |-> 0]))
                  IN  IF ~ f.ok THEN Returned(SummaryContent)
                      ELSE Returned([k \in DOMAIN rsp.body \cup {"confidence"} |->
                                       IF k = "confidence" THEN f.v ELSE rsp.body[k]])

\* lines 193-201: the batched answer is not used and the headlines of the
\* chunk are processed one by one
batch_falls_back(rsp) ==
    \/ rsp.kind \in {"None", "text"}
    \/ /\ rsp.kind = "json"
       /\ \E k \in DOMAIN rsp.body :
            ~ float_or_0(Get(rsp.body[k], "score", [t |-> "num", v |-> 0])).ok

\* lines 196-198: the items of the array, their scores made floats
batch_results(arr) ==
    [k \in DOMAIN arr |->
        [f \in DOMAIN arr[k] \cup {"score"} |->
            IF f = "score"
            THEN float_or_0(Get(arr[k], "score", [t |-> "num", v |-> 0])).v
            ELSE arr[k][f]]]

\* lines 181-206 for headlines = [h]; ob is the answer to the batched call,
\* gate and os belong to the gpt_signal_info call of the fallback
gpt_batch_signal_info(h, ob, gate, os) ==
    LET rsp == safe_chat(ob)
    IN  IF rsp.kind = "raised" THEN Raised
        ELSE IF ~ batch_falls_back(rsp) THEN Returned(batch_results(rsp.body))
        ELSE LET tmp == gpt_signal_info(gate, os)
             IN  IF tmp.kind = "raised" THEN Raised
                 ELSE Returned(<<WithHeadline(h, tmp.val)>>)

\* the headline the engine is called with
EngHead == <<"A", "c">>

InitEngine ==
    /\ InitBudgetVars
    /\ EngIdle
    /\ ThreadsIdle /\ DedupIdle /\ PipeIdle /\ ThrottleIdle
    /\ CacheIdle /\ WorkersIdle /\ MoreIdle

\* the budget variables after a budget_ok(cost) call of the engine
EngCharge(cost) ==
    LET b == budget_ok(BUDGET_USED, cost, DAILY_BUDGET)
    IN  /\ BUDGET_USED' = b.used
        /\ bo_ret' = b.ret
        /\ charged' = IF b.ret THEN charged + cost ELSE charged
        /\ bo_n' = bo_n + 1
        /\ UNCHANGED DAILY_BUDGET

\* a caller runs gpt_signal_info(head)
EngSignalInfo ==
    /\ eng_n < MaxEngCalls
    /\ eng_n' = eng_n + 1
    /\ eng_fn' = "signal"
    /\ EngCharge(COST_SIGNAL)
    /\ LET gate == budget_ok(BUDGET_USED, COST_SIGNAL, DAILY_BUDGET).ret
       IN  \E o \in ServiceOutcomes(SignalBodies) :
            /\ eng_rsp' = IF gate THEN <<o>> ELSE <<>>
            /\ eng_ret' = gpt_signal_info(gate, o)
    /\ UNCHANGED <<thVars, ddVars, pipeVars, thrVars, cacheVars, workerVars, moreVars>>

\* a caller runs gpt_summary(co, heads)
EngSummary ==
    /\ eng_n < MaxEngCalls
    /\ eng_n' = eng_n + 1
    /\ eng_fn' = "summary"
    /\ \E no_heads \in BOOLEAN :
        /\ IF no_heads THEN UNCHANGED budVars ELSE EngCharge(COST_SUMMARY)
        /\ LET gate == budget_ok(BUDGET_USED, COST_SUMMARY, DAILY_BUDGET).ret
           IN  \E o \in ServiceOutcomes(SummaryBodies) :
                /\ eng_rsp' = IF ~ no_heads /\ gate THEN <<o>> ELSE <<>>
                /\ eng_ret' = gpt_summary(no_heads, gate, o)
    /\ UNCHANGED <<thVars, ddVars, pipeVars, thrVars, cacheVars, workerVars, moreVars>>

\* a caller runs gpt_batch_signal_info([head])
EngBatch ==
    /\ eng_n < MaxEngCalls
    /\ eng_n' = eng_n + 1
    /\ eng_fn' = "batch"
    /\ \E ob \in ServiceOutcomes(BatchBodies(EngHead)) :
        IF safe_chat(ob).kind # "raised" /\ batch_falls_back(safe_chat(ob))
        THEN /\ EngCharge(COST_SIGNAL)
             /\ LET gate == budget_ok(BUDGET_USED, COST_SIGNAL, DAILY_BUDGET).ret
                IN  \E os \in ServiceOutcomes(SignalBodies) :
                     /\ eng_rsp' = IF gate THEN <<ob, os>> ELSE <<ob>>
                     /\ eng_ret' = gpt_batch_signal_info(EngHead, ob, gate, os)
        ELSE /\ UNCHANGED budVars
             /\ eng_rsp' = <<ob>>
             /\ eng_ret' = gpt_batch_signal_info(EngHead, ob, FALSE, ob)
    /\ UNCHANGED <<thVars, ddVars, pipeVars, thrVars, cacheVars, workerVars, moreVars>>

NextEngine == EngSignalInfo \/ EngSummary \/ EngBatch

SpecEngine == InitEngine /\ [][NextEngine]_vars

(***************************************************************************)
(* Claims about the extraction engine, checked under SpecEngine.           *)
(***************************************************************************)
\* the answer of the service to the last call carries a value v under key
UnderKey(o, key, v) == o.kind = "json" /\ key \in DOMAIN o.body /\ o.body[key] = v

\* C13: for every response of the service, including non-numeric,
\* out-of-range or missing score/confidence values, the score returned by
\* gpt_signal_info and gpt_batch_signal_info and the confidence returned by
\* gpt_summary lie within [0,1], and a non-numeric value becomes 0.
C13_ScoresClamped ==
    eng_ret.kind = "returned" =>
        /\ eng_fn = "signal" =>
            /\ eng_ret.val.score \in 0..100
            /\ (eng_rsp # <<>> /\ UnderKey(eng_rsp[1], "score", [t |-> "str", v |-> 0]))
                 => eng_ret.val.score = 0
        /\ eng_fn = "batch" =>
            \A k \in DOMAIN eng_ret.val : eng_ret.val[k].score \in 0..100
        /\ eng_fn = "summary" =>
            /\ eng_ret.val.confidence \in 0..100
            /\ (eng_rsp # <<>> /\ UnderKey(eng_rsp[1], "confidence", [t |-> "str", v |-> 0]))
                 => eng_ret.val.confidence = 0

\* C14: no failure of the service is propagated to the caller: for a
\* rate-limit error, a network error and unparsable output alike, the
\* function returns; gpt_signal_info returns the default {company: Unknown,
\* score: 0} and gpt_summary returns a fallback summary.
C14_FailuresNotPropagated ==
    (\E k \in DOMAIN eng_rsp : eng_rsp[k].kind \in FailureKinds) =>
        /\ eng_ret.kind = "returned"
        /\ eng_fn = "signal" => eng_ret.val = SignalDefault
        /\ eng_fn = "summary" => eng_ret.val \in {SummaryFallback, SummaryContent}

(***************************************************************************)
(* Claims about the budget ceiling inside national_scan, checked under     *)
(* Spec.                                                                   *)
(***************************************************************************)
\* the headline gpt_signal_info is called with in the fallback loop
FallbackHead == Batch(Heads(prospects), bi)[fi]

\* C15: once the budget ceiling is reached during a national_scan, every
\* deduplicated headline processed from then on still results in a Signal
\* Event (built from fallback data): the answer recorded for a headline
\* whose budget_ok call is refused is one the grouping accepts, so that the
\* headline gets into a group and from there into the signals rows.
C15_DeniedHeadlineKept ==
    [][(/\ spc = "fallback"
        /\ ~ budget_ok(BUDGET_USED, COST_SIGNAL, DAILY_BUDGET).ret
        /\ infos' # infos)
          => \E k \in DOMAIN infos' :
                info_matches(infos'[k], [headline |-> FallbackHead])]_vars

(***************************************************************************)
(* The throttle of gpt_summary, src/fetch_signals.py:37-38 and 234-238,    *)
(* run by the threads of the process (one per dashboard session).  The     *)
(* function takes no lock, so a thread may be preempted between the lines. *)
(***************************************************************************)
\* gpt_summary invocations, in all
MaxSummaryCalls == 3
\* the clock stops at this reading
MaxClock == 24

\* line 37
SUMMARY_THROTTLE == 10

\* line 235: wait = SUMMARY_THROTTLE - (time.time() - _LAST_SUMMARY)
throttle_wait(t_now, last) == SUMMARY_THROTTLE - (t_now - last)

\* the process starts at a clock reading far from the epoch
InitThrottle ==
    /\ now = SUMMARY_THROTTLE
    /\ LAST_SUMMARY = 0
    /\ sm_pc = [t \in Threads |-> "idle"]
    /\ sm_wake = [t \in Threads |-> 0]
    /\ passes = <<>>
    /\ sm_n = 0
    /\ BudgetIdle /\ ThreadsIdle /\ DedupIdle /\ PipeIdle /\ EngIdle
    /\ CacheIdle /\ WorkersIdle /\ MoreIdle

\* lines 235-237: a thread enters gpt_summary, computes wait and, if it is
\* positive, starts time.sleep(wait)
SmEnter(t) ==
    /\ sm_pc[t] = "idle"
    /\ sm_n < MaxSummaryCalls
    /\ sm_n' = sm_n + 1
    /\ LET wait == throttle_wait(now, LAST_SUMMARY)
       IN  IF wait > 0
           THEN /\ sm_pc' = [sm_pc EXCEPT ![t] = "sleep"]
                /\ sm_wake' = [sm_wake EXCEPT ![t] = now + wait]
           ELSE /\ sm_pc' = [sm_pc EXCEPT ![t] = "l238"]
                /\ UNCHANGED sm_wake
    /\ UNCHANGED <<now, LAST_SUMMARY, passes, budVars, thVars, ddVars, pipeVars, engVars, cacheVars, workerVars, moreVars>>

\* line 237: time.sleep(wait) returns, not before the time asked for
SmWake(t) ==
    /\ sm_pc[t] = "sleep"
    /\ now >= sm_wake[t]
    /\ sm_pc' = [sm_pc EXCEPT ![t] = "l238"]
    /\ sm_wake' = [sm_wake EXCEPT ![t] = 0]
    /\ UNCHANGED <<now, LAST_SUMMARY, passes, sm_n, budVars, thVars, ddVars, pipeVars, engVars, cacheVars, workerVars, moreVars>>

\* line 238: _LAST_SUMMARY = time.time(); the thread has passed the throttle
SmPass(t) ==
    /\ sm_pc[t] = "l238"
    /\ LAST_SUMMARY' = now
    /\ passes' = Append(passes, now)
    /\ sm_pc' = [sm_pc EXCEPT ![t] = "idle"]
    /\ UNCHANGED <<now, sm_wake, sm_n, budVars, thVars, ddVars, pipeVars, engVars, cacheVars, workerVars, moreVars>>

\* a second passes
Tick ==
    /\ now < MaxClock
    /\ now' = now + 1
    /\ UNCHANGED <<LAST_SUMMARY, sm_pc, sm_wake, passes, sm_n, budVars, thVars, ddVars, pipeVars, engVars, cacheVars, workerVars, moreVars>>

NextThrottle ==
    \/ \E t \in Threads : SmEnter(t) \/ SmWake(t) \/ SmPass(t)
    \/ Tick

SpecThrottle == InitThrottle /\ [][NextThrottle]_vars

\* C16: process-wide, at most one aggregate-summary call passes the
\* throttle per SUMMARY_THROTTLE-second window: the times at which any two
\* invocations of gpt_summary, of one thread or of concurrent threads, pass
\* the throttle differ by at least SUMMARY_THROTTLE seconds.
C16_OnePassPerWindow ==
    \A i, j \in DOMAIN passes :
        i < j => passes[j] - passes[i] >= SUMMARY_THROTTLE

(***************************************************************************)
(* The fetch cache and the source adapters, src/fetch_signals.py:54-88 and *)
(* 132-178, with the callers that chain the adapters (lines 348-351 and    *)
(* 415-417).  Times are int(time.time()), in seconds.                      *)
(***************************************************************************)
\* calls made by the caller of SpecAdapters, in all
MaxAdapterCalls == 2

\* line 70: ttl = 86400
TTL_DEFAULT == 86400
\* a shorter ttl, as a caller of _cached may pass
TTL_SHORT == 21600
\* lines 33-34
MAX_PROSPECTS == 100
MAX_HEADLINES == 20

\* the readings of the clock at which calls are made: the start, and the
\* ends of the ttls
ClockReadings == {0, TTL_SHORT, TTL_DEFAULT - 1, TTL_DEFAULT}

\* the ttls _cached is called with
TTLs == {TTL_DEFAULT, TTL_SHORT}

\* the query of the calls: a company name or a seed keyword
Queries == {"acme"}

\* the result caps of the callers
Caps == {MAX_HEADLINES, MAX_PROSPECTS}

\* line 133: key = f"newsapi:{query}:{maxrec}"
newsapi_key(query, maxrec) == <<"newsapi", query, maxrec>>

\* line 161: key = f"rss:{co}:{maxrec}"
rss_key(co, maxrec) == <<"rss", co, maxrec>>

CacheKeys ==
    {newsapi_key(q, n) : q \in Queries, n \in Caps}
    \cup {rss_key(q, n) : q \in Queries, n \in Caps}

\* an article; one whose title is null (NewsAPI) or missing (a feed entry)
ArtA == [title |-> <<"A">>, url |-> <<"U">>]
ArtNoTitle == [title |-> None, url |-> <<"V">>]

\* the ways a request to the upstream may fail
UpstreamFailures == {"timeout", "http_error", "malformed"}

\* what the upstream does with a request: it answers with articles, the
\* request times out, it answers with an HTTP error, or with a payload
\* that cannot be decoded
UpstreamOutcomes ==
    {[kind |-> "ok", arts |-> l] : l \in {<<>>, <<ArtA>>, <<ArtNoTitle>>}}
    \cup {[kind |-> k, arts |-> <<>>] : k \in UpstreamFailures}

\* lines 145-152: the try block of gdelt_headlines.  requests.get raises on
\* a timeout, .json() raises on a payload that is not JSON; the JSON body
\* of an HTTP error has no "articles"; a.get("title","") keeps a null title
newsapi_try(o) ==
    IF o.kind \in {"timeout", "malformed"} THEN Raised
    ELSE IF o.kind = "http_error" THEN Returned(<<>>)
    ELSE Returned(o.arts)

\* lines 169-172: the try block of google_news.  An entry without a title
\* makes e.title raise AttributeError; feed.entries[:maxrec]
rss_try(o, maxrec) ==
    IF o.kind = "timeout" THEN Raised
    ELSE IF o.kind \in {"http_error", "malformed"} THEN Returned(<<>>)
    ELSE IF \E i \in DOMAIN o.arts : o.arts[i].title = None THEN Raised
    ELSE Returned(SubSeq(o.arts, 1, Min(maxrec, Len(o.arts))))

\* the exception of the try block is not caught
except_reraise(r) == r

\* lines 153-155 and 173-175: except Exception: out = []
except_handler(r) == IF r.kind = "raised" THEN Returned(<<>>) ELSE r

\* line 82: json.dumps(data), value by value
json_dumps(data) ==
    [i \in DOMAIN data |->
        [f \in DOMAIN data[i] |->
            IF data[i][f] = None THEN [json |-> "null", chars |-> <<>>]
            ELSE [json |-> "string", chars |-> data[i][f]]]]

\* line 77: json.loads(row[0])
json_loads(text) ==
    [i \in DOMAIN text |->
        [f \in DOMAIN text[i] |->
            IF text[i][f].json = "null" THEN None ELSE text[i][f].chars]]

\* _cached returns None
CacheMiss == [hit |-> FALSE, data |-> <<>>]

\* an entry is still served at the age ttl
cached_upto(c, key, ttl, t_now) ==
    IF key \in DOMAIN c /\ t_now - c[key].ts <= ttl
    THEN [hit |-> TRUE, data |-> json_loads(c[key].data)]
    ELSE CacheMiss

\* lines 70-78: _cached(key, ttl) at the clock reading t_now
cached(c, key, ttl, t_now) ==
    IF key \in DOMAIN c /\ t_now - c[key].ts < ttl
    THEN [hit |-> TRUE, data |-> json_loads(c[key].data)]
    ELSE CacheMiss

\* lines 80-88: _store(key, data) at the clock reading t_now: INSERT OR
\* REPLACE, commit
store(c, key, data, t_now) ==
    [k \in DOMAIN c \cup {key} |->
        IF k = key THEN [data |-> json_dumps(data), ts |-> t_now] ELSE c[k]]

\* an empty cached list is taken for a miss
is_hit_truthy(cd) == cd.hit /\ cd.data # <<>>

\* lines 135 and 163: if cached is not None
is_hit(cd) == cd.hit

\* one adapter invocation: the function, the upstream outcome it met (if
\* it sent a request), what it returned, and the cache it left
Invocation(fn, key, up, ret, c) ==
    [fn |-> fn, key |-> key, up |-> up, ret |-> ret, cache |-> c]

\* lines 132-158: gdelt_headlines(query, maxrec) on the cache c when the
\* upstream would answer with o
gdelt_headlines(c, query, maxrec, o, t_now) ==
    LET key == newsapi_key(query, maxrec)
        cd == cached(c, key, TTL_DEFAULT, t_now)
        out == except_handler(newsapi_try(o))
    IN  IF is_hit(cd) THEN Invocation("gdelt_headlines", key, "none", Returned(cd.data), c)
        ELSE IF out.kind = "raised" THEN Invocation("gdelt_headlines", key, o.kind, Raised, c)
        ELSE Invocation("gdelt_headlines", key, o.kind, out, store(c, key, out.val, t_now))

\* lines 160-178: google_news(co, maxrec)
google_news(c, co, maxrec, o, t_now) ==
    LET key == rss_key(co, maxrec)
        cd == cached(c, key, TTL_DEFAULT, t_now)
        out == except_handler(rss_try(o, maxrec))
    IN  IF is_hit(cd) THEN Invocation("google_news", key, "none", Returned(cd.data), c)
        ELSE IF out.kind = "raised" THEN Invocation("google_news", key, o.kind, Raised, c)
        ELSE Invocation("google_news", key, o.kind, out, store(c, key, out.val, t_now))

\* lines 348-350 and 415-416: gdelt_headlines(...) or google_news(...): the
\* invocations made, in order
fetch_chain(c, query, maxrec, o1, o2, t_now) ==
    LET g == gdelt_headlines(c, query, maxrec, o1, t_now)
    IN  IF g.ret.kind = "raised" \/ g.ret.val # <<>> THEN <<g>>
        ELSE <<g, google_news(g.cache, query, maxrec, o2, t_now)>>

\* lines 48-51: EXTRA_KWS, over the alphabet of the model
EXTRA_KWS == {<<"a">>}

\* ek in s
contains(s, ek) ==
    \E i \in 1..(Len(s) - Len(ek) + 1) : SubSeq(s, i, i + Len(ek) - 1) = ek

\* any(ek in a["title"].lower() for ek in EXTRA_KWS)
has_keyword(a) == \E ek \in EXTRA_KWS : contains(lower(a.title), ek)

\* lines 351 and 417: a["title"].lower() in the keyword filter raises
\* AttributeError on a title that is None; otherwise the caller goes on
\* with the articles that have a keyword in their title
keyword_filter(ret) ==
    IF ret.kind = "raised" THEN Raised
    ELSE IF \E i \in DOMAIN ret.val : ret.val[i].title = None THEN Raised
    ELSE Returned(SelectSeq(ret.val, has_keyword))

\* what is kept of an invocation once it has returned
Seen(inv) == [fn |-> inv.fn, key |-> inv.key, up |-> inv.up, ret |-> inv.ret]

\* the lists the invocations tr handed to _store, added to f
RECURSIVE FetchedAfter(_, _)
FetchedAfter(f, tr) ==
    IF tr = <<>> THEN f
    ELSE LET inv == Head(tr)
             g == IF inv.up # "none" /\ inv.ret.kind = "returned"
                  THEN [k \in DOMAIN f \cup {inv.key} |->
                          IF k = inv.key THEN inv.ret.val ELSE f[k]]
                  ELSE f
         IN  FetchedAfter(g, Tail(tr))

InitAdapters ==
    /\ CacheIdle /\ WorkersIdle
    /\ ThrottleIdle
    /\ BudgetIdle /\ ThreadsIdle /\ DedupIdle /\ PipeIdle /\ EngIdle /\ MoreIdle

\* the caller's variables after a call that made the invocations tr and
\* ended with ret
AdReturn(fn, ttl, tr, ret) ==
    /\ ad_n < MaxAdapterCalls
    /\ ad_n' = ad_n + 1
    /\ ad_fn' = fn
    /\ ad_arg' = [key |-> tr[1].key, ttl |-> ttl]
    /\ ad_trace' = [i \in DOMAIN tr |-> Seen(tr[i])]
    /\ ad_ret' = ret
    /\ cache' = tr[Len(tr)].cache
    /\ ad_fetched' = FetchedAfter(ad_fetched, tr)
    /\ UNCHANGED <<thrVars, budVars, thVars, ddVars, pipeVars, engVars, workerVars, moreVars>>

\* the search overlay runs google_news(company, MAX_HEADLINES), app.py:123
AdGoogle ==
    \E q \in Queries, o \in UpstreamOutcomes :
        LET inv == google_news(cache, q, MAX_HEADLINES, o, now)
        IN  AdReturn("google_news", TTL_DEFAULT, <<inv>>, inv.ret)

\* manual_search (MAX_HEADLINES) or a fetch worker of national_scan
\* (MAX_PROSPECTS) runs the chain and the keyword filter
AdChain ==
    \E q \in Queries, n \in Caps, o1 \in UpstreamOutcomes, o2 \in UpstreamOutcomes :
        LET tr == fetch_chain(cache, q, n, o1, o2, now)
        IN  AdReturn("fetch_chain", TTL_DEFAULT, tr, keyword_filter(tr[Len(tr)].ret))

\* a caller runs _cached(key, ttl)
AdCached ==
    /\ ad_n < MaxAdapterCalls
    /\ ad_n' = ad_n + 1
    /\ \E key \in CacheKeys, ttl \in TTLs :
        /\ ad_arg' = [key |-> key, ttl |-> ttl]
        /\ ad_ret' = cached(cache, key, ttl, now)
    /\ ad_fn' = "_cached"
    /\ ad_trace' = <<>>
    /\ UNCHANGED <<cache, ad_fetched, thrVars, budVars, thVars, ddVars,
                   pipeVars, engVars, workerVars, moreVars>>

\* time passes between two calls
AdTick ==
    /\ \E r \in ClockReadings : r > now /\ now' = r
    /\ UNCHANGED <<cache, ad_fetched, ad_fn, ad_arg, ad_trace, ad_ret, ad_n,
                   LAST_SUMMARY, sm_pc, sm_wake, passes, sm_n,
                   budVars, thVars, ddVars, pipeVars, engVars, workerVars, moreVars>>

NextAdapters == AdGoogle \/ AdChain \/ AdCached \/ AdTick

SpecAdapters == InitAdapters /\ [][NextAdapters]_vars

(***************************************************************************)
(* Claims about the adapters and the cache, checked under SpecAdapters.    *)
(***************************************************************************)
\* the entry of key is served at the clock reading t_now under ttl
Fresh(c, key, ttl, t_now) == key \in DOMAIN c /\ t_now - c[key].ts < ttl

\* C17: a source adapter never raises: for every upstream outcome (timeout,
\* HTTP error, malformed payload) gdelt_headlines and google_news return a
\* list, empty on failure; manual_search and the workers of national_scan
\* invoke the feed adapter only when the primary adapter returned an empty
\* list, and when both fail the query yields zero candidates and no
\* exception reaches them.
C17_AdaptersNeverRaise ==
    /\ \A i \in DOMAIN ad_trace :
        /\ ad_trace[i].ret.kind = "returned"
        /\ ad_trace[i].up \in UpstreamFailures => ad_trace[i].ret.val = <<>>
    /\ ad_fn = "fetch_chain" =>
        /\ ad_trace[1].fn = "gdelt_headlines"
        /\ Len(ad_trace) = 2 =>
            /\ ad_trace[2].fn = "google_news"
            /\ ad_trace[1].ret = Returned(<<>>)
        /\ ad_trace[1].ret = Returned(<<>>) => Len(ad_trace) = 2
        /\ (\A i \in DOMAIN ad_trace : ad_trace[i].up \in UpstreamFailures)
             => ad_ret = Returned(<<>>)

\* both adapters of a chain have met a failing upstream
C17_Witness ==
    /\ ad_fn = "fetch_chain"
    /\ Len(ad_trace) = 2
    /\ ad_trace[1].up = "timeout"
    /\ ad_trace[2].up = "malformed"
    /\ ad_ret = Returned(<<>>)

\* C18: TTL expiry is decided at read time: _cached(key, ttl) returns the
\* stored list exactly when an entry for key exists and now - ts < ttl, and
\* None for an absent entry or one whose age is at least ttl; the adapter
\* then refetches and overwrites the entry with the current timestamp.
C18_ExpiryAtRead ==
    [][ad_n' # ad_n =>
        /\ ad_fn' = "_cached" =>
            /\ ad_ret'.hit <=> Fresh(cache, ad_arg'.key, ad_arg'.ttl, now)
            /\ ad_ret'.hit => ad_ret'.data = ad_fetched[ad_arg'.key]
            /\ cache' = cache
        /\ (/\ ad_fn' \in {"gdelt_headlines", "google_news"}
            /\ ~ Fresh(cache, ad_arg'.key, TTL_DEFAULT, now))
             => /\ ad_trace'[1].up # "none"
                /\ ad_arg'.key \in DOMAIN cache'
                /\ cache'[ad_arg'.key].ts = now
                /\ json_loads(cache'[ad_arg'.key].data) = ad_ret'.val]_vars

\* _cached has returned None for an entry whose age is exactly ttl
C18_Witness ==
    /\ ad_fn = "_cached"
    /\ ~ ad_ret.hit
    /\ ad_arg.key \in DOMAIN cache
    /\ now - cache[ad_arg.key].ts = ad_arg.ttl

\* C19: the cache is read-through: once an adapter call for a key has
\* completed, every later sequential call of that adapter with the same
\* query and cap within the TTL window sends no request and returns
\* exactly the list the first call stored, the empty list of a failed
\* fetch included.
C19_ReadThrough ==
    [][(/\ ad_n' # ad_n
        /\ ad_fn' \in {"gdelt_headlines", "google_news"}
        /\ Fresh(cache, ad_arg'.key, TTL_DEFAULT, now))
          => /\ ad_trace'[1].up = "none"
             /\ ad_ret' = Returned(ad_fetched[ad_arg'.key])
             /\ cache' = cache]_vars

\* an adapter has answered from the cache with the empty list that a
\* failed fetch had stored
C19_Witness ==
    /\ ad_fn \in {"gdelt_headlines", "google_news"}
    /\ ad_n >= 2
    /\ ad_trace[1].up = "none"
    /\ ad_ret = Returned(<<>>)
    /\ now > 0

(***************************************************************************)
(* The fetch workers of national_scan, src/fetch_signals.py:405-427: one   *)
(* thread per seed keyword, each running gdelt_headlines(k, MAX_PROSPECTS) *)
(* or google_news(k, MAX_PROSPECTS) on the shared connection _cache under  *)
(* cache_lock (lines 54-88).                                               *)
(***************************************************************************)
\* the seed keyword of a worker: every worker has its own
Seed(t) == t

\* the cache file may hold the entry of the first seed from an earlier run
InitialCaches ==
    {NoCache, store(NoCache, newsapi_key(Seed(1), MAX_PROSPECTS), <<ArtA>>, 0)}

\* the lock is taken whoever holds it
lock_always_free(holder) == TRUE

\* lines 72 and 83: with cache_lock: the lock can be taken when no thread
\* holds it
lock_free(holder) == holder = 0

\* the key of the adapter a worker is in
WorkerKey(t) ==
    IF w_fn[t] = "gdelt_headlines" THEN newsapi_key(Seed(t), MAX_PROSPECTS)
    ELSE rss_key(Seed(t), MAX_PROSPECTS)

\* a worker touches the cache and its own locals only
WorkerFrame ==
    UNCHANGED <<ad_fetched, ad_fn, ad_arg, ad_trace, ad_ret, ad_n,
                thrVars, budVars, thVars, ddVars, pipeVars, engVars, moreVars>>

InitWorkers ==
    /\ cache \in InitialCaches
    /\ ad_fetched = NoFetched /\ ad_fn = "none" /\ ad_arg = NoArg
    /\ ad_trace = <<>> /\ ad_ret = [kind |-> "none"] /\ ad_n = 0
    /\ WorkersIdle
    /\ ThrottleIdle
    /\ BudgetIdle /\ ThreadsIdle /\ DedupIdle /\ PipeIdle /\ EngIdle /\ MoreIdle

\* lines 407-408: pool.submit: the worker starts with gdelt_headlines
WStart(t) ==
    /\ w_pc[t] = "idle"
    /\ w_pc' = [w_pc EXCEPT ![t] = "cached"]
    /\ w_fn' = [w_fn EXCEPT ![t] = "gdelt_headlines"]
    /\ UNCHANGED <<cache, cache_lock, cache_tx, w_out>>
    /\ WorkerFrame

\* line 72: _cached enters with cache_lock
WLockRead(t) ==
    /\ w_pc[t] = "cached"
    /\ lock_free(cache_lock)
    /\ cache_lock' = t
    /\ w_pc' = [w_pc EXCEPT ![t] = "select"]
    /\ UNCHANGED <<cache, cache_tx, w_fn, w_out>>
    /\ WorkerFrame

\* the rows a SELECT on the connection _cache sees: its own uncommitted
\* INSERT included
ConnView ==
    IF cache_tx.active THEN store(cache, cache_tx.key, cache_tx.data, cache_tx.ts)
    ELSE cache

\* the position of a worker whose adapter returns out
AfterAdapter(t, out) ==
    IF w_fn[t] = "gdelt_headlines" /\ out = <<>> THEN "cached" ELSE "done"

\* lines 73-78, 135-136 and 415-416: SELECT, leave the lock; on a hit the
\* adapter returns the cached list, and the worker goes on to google_news
\* if gdelt_headlines returned an empty one
WSelect(t) ==
    /\ w_pc[t] = "select"
    /\ cache_lock' = 0
    /\ LET cd == cached(ConnView, WorkerKey(t), TTL_DEFAULT, now)
       IN  IF is_hit(cd)
           THEN /\ w_out' = [w_out EXCEPT ![t] = cd.data]
                /\ w_pc' = [w_pc EXCEPT ![t] = AfterAdapter(t, cd.data)]
                /\ w_fn' = [w_fn EXCEPT ![t] =
                              IF AfterAdapter(t, cd.data) = "cached"
                              THEN "google_news" ELSE @]
           ELSE /\ w_pc' = [w_pc EXCEPT ![t] = "fetch"]
                /\ UNCHANGED <<w_out, w_fn>>
    /\ UNCHANGED <<cache, cache_tx>>
    /\ WorkerFrame

\* lines 138-155 and 165-175: the request to the upstream, outside the lock
WFetch(t) ==
    /\ w_pc[t] = "fetch"
    /\ \E o \in UpstreamOutcomes :
        w_out' = [w_out EXCEPT ![t] =
                    IF w_fn[t] = "gdelt_headlines"
                    THEN except_handler(newsapi_try(o)).val
                    ELSE except_handler(rss_try(o, MAX_PROSPECTS)).val]
    /\ w_pc' = [w_pc EXCEPT ![t] = "store"]
    /\ UNCHANGED <<cache, cache_lock, cache_tx, w_fn>>
    /\ WorkerFrame

\* lines 83-87: _store enters with cache_lock and runs INSERT OR REPLACE
WLockInsert(t) ==
    /\ w_pc[t] = "store"
    /\ lock_free(cache_lock)
    /\ cache_lock' = t
    /\ cache_tx' = [active |-> TRUE, key |-> WorkerKey(t), data |-> w_out[t], ts |-> now]
    /\ w_pc' = [w_pc EXCEPT ![t] = "commit"]
    /\ UNCHANGED <<cache, w_fn, w_out>>
    /\ WorkerFrame

\* line 88: _cache.commit() makes the connection's pending INSERT durable,
\* then the lock is left and the adapter returns
WCommit(t) ==
    /\ w_pc[t] = "commit"
    /\ cache' = ConnView
    /\ cache_tx' = NoCacheTx
    /\ cache_lock' = 0
    /\ w_pc' = [w_pc EXCEPT ![t] = AfterAdapter(t, w_out[t])]
    /\ w_fn' = [w_fn EXCEPT ![t] =
                  IF AfterAdapter(t, w_out[t]) = "cached" THEN "google_news" ELSE @]
    /\ UNCHANGED w_out
    /\ WorkerFrame

NextWorkers ==
    \E t \in Threads :
        \/ WStart(t)
        \/ WLockRead(t)
        \/ WSelect(t)
        \/ WFetch(t)
        \/ WLockInsert(t)
        \/ WCommit(t)

SpecWorkers == InitWorkers /\ [][NextWorkers]_vars

\* the lines of _cached and _store that run with cache_lock
InCache(t) == w_pc[t] \in {"select", "commit"}

\* C20: accesses to the fetch cache are serialized across the concurrent
\* fetch workers of national_scan: at most one thread at a time is inside
\* a cache read (_cached) or a cache write-and-commit (_store), so no
\* thread reads the table while an entry is written and not yet committed;
\* and the workers never write the clients or signals tables.
C20_CacheSerialized ==
    /\ [](/\ \A t1, t2 \in Threads : (InCache(t1) /\ InCache(t2)) => t1 = t2
          /\ \A t \in Threads : w_pc[t] = "select" => ~ cache_tx.active
          /\ cache_tx.active => \E t \in Threads : w_pc[t] = "commit" /\ cache_lock = t)
    /\ [][db_clients' = db_clients /\ db_signals' = db_signals]_vars

\* a worker is writing its entry while another waits to read the cache
C20_Witness ==
    \E t1, t2 \in Threads :
        /\ w_pc[t1] = "commit"
        /\ cache_tx.active
        /\ w_pc[t2] = "cached"
        /\ w_fn[t2] = "google_news"

(***************************************************************************)
(* Geocoding, src/fetch_signals.py:118-129.                                *)
(***************************************************************************)
\* safe_geocode calls made under SpecGeocode, in all
MaxGeoCalls == 2

\* a latitude or longitude, in whole degrees; None in the place of one
Float(x) == [float |-> x]
NoFloat == [none |-> TRUE]

\* the degrees the geocoder answers with
Degrees == {-75, 0, 40}

\* what geocoder.geocode(q, timeout=10) does: it returns a Location, it
\* returns None (nothing found), or it raises (timeout, service error)
GeocoderOutcomes ==
    {[kind |-> "location", latitude |-> Float(a), longitude |-> Float(b)] :
        a \in Degrees, b \in Degrees}
    \cup {[kind |-> "not_found"], [kind |-> "network_error"]}

\* the arguments of the callers: "" (lines 358 and 469) or an address
\* (line 370), and a company name
GeoHeadlines == {<<>>, <<"A">>}
GeoCompanies == {<<"c">>, <<"B">>}

\* line 128: f"{company} headquarters"
headquarters(company) ==
    company \o <<" ", "h", "e", "a", "d", "q", "u", "a", "r", "t", "e", "r", "s">>

\* line 120: loc = geocoder.geocode(q, timeout=10)
geocode_try(o) ==
    IF o.kind = "network_error" THEN Raised
    ELSE IF o.kind = "not_found" THEN Returned(NoFloat)
    ELSE Returned(o)

\* the exception of geocoder.geocode is not caught
geo_except_reraise(r) == r

\* lines 121-122: except: loc = None
geo_except(r) == IF r.kind = "raised" THEN Returned(NoFloat) ELSE r

\* lines 118-123: _geo(q) when the geocoder answers with o: the pair
\* (latitude, longitude), or that it raised
geo(o) ==
    LET loc == geo_except(geocode_try(o))
    IN  IF loc.kind = "raised" THEN Raised
        ELSE IF loc.val # NoFloat
             THEN Returned(<<loc.val.latitude, loc.val.longitude>>)
             ELSE Returned(<<NoFloat, NoFloat>>)

\* line 127: if lat is None or lon is None
needs_fallback(lat, lon) == lat = NoFloat \/ lon = NoFloat

\* lines 125-129: safe_geocode(headline, company) when the geocoder answers
\* the first query with o1 and a second one with o2: the queries made with
\* their answers, and what is returned
safe_geocode(headline, company, o1, o2) ==
    LET q1 == [q |-> headline, o |-> o1]
        q2 == [q |-> headquarters(company), o |-> o2]
        first == geo(o1)
        second == geo(o2)
    IN  IF first.kind = "raised" THEN [made |-> <<q1>>, ret |-> Raised]
        ELSE IF needs_fallback(first.val[1], first.val[2])
             THEN [made |-> <<q1, q2>>, ret |-> second]
             ELSE [made |-> <<q1>>, ret |-> first]

InitGeocode ==
    /\ MoreIdle
    /\ BudgetIdle /\ ThreadsIdle /\ DedupIdle /\ PipeIdle
    /\ EngIdle /\ ThrottleIdle /\ CacheIdle /\ WorkersIdle

\* a caller runs safe_geocode(headline, company)
GeoCall ==
    /\ geo_n < MaxGeoCalls
    /\ geo_n' = geo_n + 1
    /\ \E h \in GeoHeadlines, c \in GeoCompanies,
          o1 \in GeocoderOutcomes, o2 \in GeocoderOutcomes :
        LET r == safe_geocode(h, c, o1, o2)
        IN  /\ geo_in' = [headline |-> h, company |-> c]
            /\ geo_rsp' = r.made
            /\ geo_ret' = r.ret
    /\ UNCHANGED <<budVars, thVars, ddVars, pipeVars, engVars, thrVars,
                   cacheVars, workerVars, searchVars, batchVars, fetches>>

NextGeocode == GeoCall

SpecGeocode == InitGeocode /\ [][NextGeocode]_vars

\* the geocoder found the place asked for
Found(o) == o.kind = "location"

\* the pair _geo makes of a Location
Pair(o) == <<o.latitude, o.longitude>>

\* C21: safe_geocode(hint, company) never raises; it returns the result of
\* geocoding the hint when that succeeds; otherwise it returns the result
\* of geocoding "<company> headquarters"; it returns (None, None) only when
\* both attempts fail (nothing found, or a network error).
C21_SafeGeocode ==
    geo_n > 0 =>
        /\ geo_ret.kind = "returned"
        /\ geo_rsp[1].q = geo_in.headline
        /\ Found(geo_rsp[1].o) =>
            /\ Len(geo_rsp) = 1
            /\ geo_ret.val = Pair(geo_rsp[1].o)
        /\ ~ Found(geo_rsp[1].o) =>
            /\ Len(geo_rsp) = 2
            /\ geo_rsp[2].q = headquarters(geo_in.company)
            /\ Found(geo_rsp[2].o) => geo_ret.val = Pair(geo_rsp[2].o)
            /\ ~ Found(geo_rsp[2].o) => geo_ret.val = <<NoFloat, NoFloat>>
        /\ geo_ret.val = <<NoFloat, NoFloat>> =>
             \A i \in DOMAIN geo_rsp : ~ Found(geo_rsp[i].o)

\* the hint was not found, the geocoder timed out on the second query
C21_Witness ==
    /\ geo_n > 0
    /\ Len(geo_rsp) = 2
    /\ geo_rsp[1].o.kind = "not_found"
    /\ geo_rsp[2].o.kind = "network_error"
    /\ geo_ret = Returned(<<NoFloat, NoFloat>>)

(***************************************************************************)
(* Claims about what a national_scan that does not finish leaves behind,   *)
(* checked under Spec.                                                     *)
(***************************************************************************)
\* national_scan ends with an exception while it works on a group
LeavesInGroup ==
    /\ spc \in {"summary", "contacts", "upsert"}
    /\ spc' = "raised"

\* C22: progress of a national_scan is retained per company group: when a
\* write to the store fails while group k is processed, or the scan ends
\* there for another reason, the clients rows and the signals rows of the
\* groups 1..k-1 are in the committed tables; only group k is lost.
C22_GroupProgressRetained ==
    [][(LeavesInGroup /\ gi > 1)
          => \A k \in 1..(gi - 1) :
                /\ by_co[k].co \in DOMAIN db_clients'
                /\ \A r \in Range(GroupRows(by_co[k])) : r \in DOMAIN db_signals']_vars

(***************************************************************************)
(* The search overlay, src/app.py:116-140, and manual_search,              *)
(* src/fetch_signals.py:347-359: one run of the session's script with      *)
(* st.session_state["search_co"] set.                                      *)
(***************************************************************************)
\* runs of the overlay under SpecSearch, in all
MaxSearches == 2

\* an article without a keyword in its title; one that differs from ArtA
\* by the case of its title only
ArtOff == [title |-> <<"B">>, url |-> <<"V">>]
ArtLow == [title |-> <<"a">>, url |-> <<"V">>]

\* what the upstream of an adapter does with the request of a search
SearchUpstream ==
    UpstreamOutcomes
    \cup {[kind |-> "ok", arts |-> l] : l \in {<<ArtOff>>, <<ArtA, ArtLow>>}}

\* how the geocoder answers a query of a search
SearchGeocoder ==
    {o \in GeocoderOutcomes : o.kind = "location" => Pair(o) = <<Float(40), Float(-75)>>}

\* how the service answers the gpt_summary call of a search
SearchService ==
    {o \in ServiceOutcomes(SummaryBodies) : o.kind = "json" => o.body = [summary |-> "gpt"]}

\* the answers to choose from for a request: one will do for a request
\* that is not made
AsNeeded(made, S) == IF made THEN S ELSE {CHOOSE x \in S : TRUE}

\* st.session_state["search_co"]: the company searched for
SearchCompanies == {<<"c">>}

\* None in the place of the summary
NoInfo == [none |-> TRUE]

\* line 355: return None, [], None, None
NoSignalsFound == [info |-> NoInfo, heads |-> <<>>, lat |-> NoFloat, lon |-> NoFloat]

\* line 353: heads = [a["title"] for a in arts][:MAX_HEADLINES]
titles(arts) ==
    SubSeq([i \in DOMAIN arts |-> arts[i].title], 1, Min(MAX_HEADLINES, Len(arts)))

\* line 354: if not heads
no_heads(heads) == heads = <<>>

\* lines 347-359: manual_search(company) on the cache c; o1, o2 are what
\* the upstreams of the adapters would answer, gate what budget_ok(0.5)
\* would return, os the answer of the service, g1 and g2 those of the
\* geocoder.  trace: the adapter invocations; made: the calls made after
\* them
manual_search(c, company, o1, o2, gate, os, g1, g2, t_now) ==
    LET tr == fetch_chain(c, company, MAX_HEADLINES, o1, o2, t_now)
        arts == keyword_filter(tr[Len(tr)].ret)
    IN  IF arts.kind = "raised" THEN [trace |-> tr, made |-> <<>>, ret |-> Raised]
        ELSE LET heads == titles(dedup(arts.val))
             IN  IF no_heads(heads)
                 THEN [trace |-> tr, made |-> <<>>, ret |-> Returned(NoSignalsFound)]
                 ELSE LET inf == gpt_summary(heads = <<>>, gate, os)
                          g == safe_geocode(<<>>, company, g1, g2)
                      IN  IF inf.kind = "raised"
                          THEN [trace |-> tr, made |-> <<"gpt_summary">>, ret |-> Raised]
                          ELSE [trace |-> tr,
                                made |-> <<"gpt_summary", "safe_geocode">>,
                                ret |-> IF g.ret.kind = "raised" THEN Raised
                                        ELSE Returned([info |-> inf.val,
                                                       heads |-> heads,
                                                       lat |-> g.ret.val[1],
                                                       lon |-> g.ret.val[2]])]

\* app.py:128-140 with what manual_search gave: an exception of
\* manual_search leaves the script; summary["summary"] raises TypeError on
\* None (line 131) and KeyError on an answer without that key; rows holds
\* the strings of heads, so r["title"] raises TypeError for the first of
\* them (line 137)
search_view(r) ==
    IF r.kind = "raised" THEN "raised"
    ELSE IF r.val.info = NoInfo THEN "raised"
    ELSE IF "summary" \notin DOMAIN r.val.info THEN "raised"
    ELSE IF r.val.heads # <<>> THEN "raised"
    ELSE "rendered"

\* app.py:122-126 and 130-140 with the rows of google_news: r["title"][:100]
\* raises TypeError on a title that is None
show_all_view(arts) ==
    IF \E i \in DOMAIN arts : arts[i].title = None THEN "raised" ELSE "rendered"

InitSearch ==
    /\ InitBudgetVars
    /\ MoreIdle
    /\ ThreadsIdle /\ DedupIdle /\ PipeIdle
    /\ EngIdle /\ ThrottleIdle /\ CacheIdle /\ WorkersIdle

\* what a run of the overlay leaves alone
SearchFrame ==
    UNCHANGED <<ad_fetched, ad_fn, ad_arg, ad_trace, ad_ret, ad_n, thVars,
                ddVars, pipeVars, engVars, thrVars, workerVars, geoVars,
                batchVars, fetches>>

\* the headlines manual_search would have at line 353, none if it raises
\* before
titles_of_search(c, company, o1, o2, t_now) ==
    LET tr == fetch_chain(c, company, MAX_HEADLINES, o1, o2, t_now)
        arts == keyword_filter(tr[Len(tr)].ret)
    IN  IF arts.kind = "raised" THEN <<>> ELSE titles(dedup(arts.val))

\* app.py:127-140: "Show all headlines" is not ticked
OverlaySearch ==
    /\ ms_n < MaxSearches
    /\ ms_n' = ms_n + 1
    /\ ms_fn' = "manual_search"
    /\ \E co \in SearchCompanies, o1 \in SearchUpstream :
       \E o2 \in AsNeeded(Len(fetch_chain(cache, co, MAX_HEADLINES, o1, o1, now)) = 2,
                          SearchUpstream) :
       \E os \in AsNeeded(titles_of_search(cache, co, o1, o2, now) # <<>>, SearchService),
          g1 \in AsNeeded(titles_of_search(cache, co, o1, o2, now) # <<>>, SearchGeocoder) :
       \E g2 \in AsNeeded(~ Found(g1), SearchGeocoder) :
        LET gate == budget_ok(BUDGET_USED, COST_SUMMARY, DAILY_BUDGET).ret
            r == manual_search(cache, co, o1, o2, gate, os, g1, g2, now)
        IN  /\ ms_trace' = [i \in DOMAIN r.trace |-> Seen(r.trace[i])]
            /\ ms_made' = r.made
            /\ ms_ret' = r.ret
            /\ ms_view' = search_view(r.ret)
            /\ cache' = r.trace[Len(r.trace)].cache
            /\ IF r.made # <<>> THEN EngCharge(COST_SUMMARY) ELSE UNCHANGED budVars
    /\ SearchFrame

\* app.py:121-126 and 130-140: "Show all headlines" is ticked
OverlayShowAll ==
    /\ ms_n < MaxSearches
    /\ ms_n' = ms_n + 1
    /\ ms_fn' = "show_all"
    /\ \E co \in SearchCompanies, o \in SearchUpstream :
        LET inv == google_news(cache, co, MAX_HEADLINES, o, now)
        IN  /\ ms_trace' = <<Seen(inv)>>
            /\ ms_ret' = [kind |-> "none"]
            /\ ms_view' = show_all_view(inv.ret.val)
            /\ cache' = inv.cache
    /\ ms_made' = <<>>
    /\ UNCHANGED budVars
    /\ SearchFrame

NextSearch == OverlaySearch \/ OverlayShowAll

SpecSearch == InitSearch /\ [][NextSearch]_vars

\* the adapters of the last run gave manual_search no article with a
\* keyword in its title
NoUsableCandidates ==
    /\ ms_fn = "manual_search"
    /\ keyword_filter(ms_trace[Len(ms_trace)].ret) = Returned(<<>>)

\* C23: when all adapters return no usable candidates for a company, the
\* targeted lookup yields an explicit no-signals result and no exception:
\* manual_search returns without raising and makes no summary and no
\* geocoding call, and the search view of the dashboard that consumes its
\* result does not raise either.
C23_NoSignalsResult ==
    NoUsableCandidates =>
        /\ ms_ret = Returned(NoSignalsFound)
        /\ ms_made = <<>>
        /\ ms_view = "rendered"

(***************************************************************************)
(* The grouping of national_scan alone, src/fetch_signals.py:434-444, and  *)
(* the rows built from the groups, lines 446-491, for every list infos the *)
(* extraction may have returned.                                           *)
(***************************************************************************)
\* results in infos, at most
MaxInfos == 3

\* the results gpt_batch_signal_info may hold: for a headline of the scan,
\* with or without a company, scored just below or at the cutoff, and one
\* without a headline
GroupItems ==
    {[headline |-> h, company |-> "Acme", score |-> sc] :
        h \in {<<"A", "c">>, <<"B">>}, sc \in {RELEVANCE_CUTOFF - 1, RELEVANCE_CUTOFF}}
    \cup {[headline |-> h, score |-> sc] :
            h \in {<<"A", "c">>, <<"B">>}, sc \in {RELEVANCE_CUTOFF - 1, RELEVANCE_CUTOFF}}
    \cup {[company |-> "Acme", score |-> RELEVANCE_CUTOFF]}

\* lines 446-491 when no call fails: rows, group after group
RECURSIVE rows_of(_)
rows_of(groups) ==
    IF groups = <<>> THEN <<>>
    ELSE GroupRows(Head(groups)) \o rows_of(Tail(groups))

InitGroup ==
    /\ \E fetched \in SeqsUpTo(ScanArticles, MaxFetched) : prospects = dedup(fetched)
    /\ infos \in SeqsUpTo(GroupItems, MaxInfos)
    /\ spc = "group"
    /\ dbLayout = "fresh" /\ db_clients = NoClients /\ db_signals = NoSignals
    /\ wlock = "none" /\ scans = 0 /\ bi = 0 /\ fi = 0 /\ by_co = <<>> /\ gi = 0
    /\ info = "none" /\ rows = <<>> /\ s_tx = NoTx
    /\ ext_call = NoCall /\ denied = FALSE
    /\ ui_pc = "idle" /\ ui_co = "none" /\ ui_picks = {} /\ ui_tx = NoTx
    /\ saves = 0
    /\ BudgetIdle /\ ThreadsIdle /\ DedupIdle /\ RestIdle

\* lines 434-444
GroupProspects ==
    /\ spc = "group"
    /\ by_co' = group_by_company(prospects, infos)
    /\ spc' = "rows"
    /\ UNCHANGED <<dbVars, scans, prospects, infos, bi, fi, gi, info, rows, s_tx,
                   extVars, uiVars, budVars, thVars, ddVars, restVars>>

\* lines 446-491 when no call fails
GroupRowsBuilt ==
    /\ spc = "rows"
    /\ rows' = rows_of(by_co)
    /\ spc' = "write"
    /\ UNCHANGED <<dbVars, scans, prospects, infos, bi, fi, by_co, gi, info, s_tx,
                   extVars, uiVars, budVars, thVars, ddVars, restVars>>

NextGroup == GroupProspects \/ GroupRowsBuilt

SpecGroup == InitGroup /\ [][NextGroup]_vars

\* the results that have the headline of p and reach the cutoff
Passing(p) ==
    {k \in DOMAIN infos :
        /\ "headline" \in DOMAIN infos[k]
        /\ infos[k].headline = p.headline
        /\ infos[k].score >= RELEVANCE_CUTOFF}

\* the places <<group, item>> at which the headline of p is in by_co
Places(p) ==
    {<<g, k>> \in (DOMAIN by_co) \X (1..(MaxFetched + 1)) :
        k \in DOMAIN by_co[g].items /\ by_co[g].items[k].headline = p.headline}

\* the company of a result
CompanyOf(inf) == IF "company" \in DOMAIN inf THEN inf.company ELSE "Unknown"

MaxHeads == 3

\* the headlines of the argument
BatchHeads == {<<"A", "c">>, <<"B">>}

\* the values of the argument chunk: small ones, and the default of line 181
BatchChunks == {1, 2, CHUNK}

\* the item the service is asked to give for a headline
AskedItem(h) == [headline |-> h, company |-> "Acme", score |-> [t |-> "num", v |-> 90]]

\* the JSON arrays the service may answer the batched call for batch with:
\* one item per headline, no item, an item for another headline, and one
\* item per headline with a score of the first that float() rejects
BatchAnswerBodies(batch) ==
    {[k \in DOMAIN batch |-> AskedItem(batch[k])],
     <<>>,
     <<AskedItem(<<"B", "c">>)>>,
     [k \in DOMAIN batch |->
        IF k = 1 THEN [AskedItem(batch[k]) EXCEPT !.score = [t |-> "str", v |-> 0]]
        ELSE AskedItem(batch[k])]}

\* the JSON objects the service may answer a gpt_signal_info call of the
\* fallback with
FallbackBodies == {[company |-> "Acme", score |-> [t |-> "num", v |-> 90]]}

\* the last headline of the chunk is left out
batch_slice_short(headlines, i, chunk) ==
    SubSeq(headlines, i + 1, Min(i + chunk, Len(headlines)) - 1)

\* line 184: batch = headlines[i:i+chunk]
batch_slice(headlines, i, chunk) ==
    SubSeq(headlines, i + 1, Min(i + chunk, Len(headlines)))

\* a call of the service for a batch, how it ended: "parsed" (lines
\* 195-199 ran through), "unparsed" (no answer, or an exception in lines
\* 195-198) or "raised", and what it added to results
BatchedCall(batch, outcome, added) ==
    [fn |-> "safe_chat", batch |-> batch, outcome |-> outcome, added |-> added]

\* a call of gpt_signal_info for a headline, and what it added to results
\* (nothing when it raised)
SignalCall(h, added) == [fn |-> "gpt_signal_info", head |-> h, added |-> added]

InitBatch ==
    /\ InitBudgetVars
    /\ gb_heads \in SeqsUpTo(BatchHeads, MaxHeads)
    /\ gb_chunk \in BatchChunks
    /\ gb_i = 0
    /\ gb_f = 0
    /\ gb_results = <<>>
    /\ gb_calls = <<>>
    /\ gb_pc = "chunk"
    /\ GeoIdle /\ SearchIdle /\ SessionsIdle
    /\ ThreadsIdle /\ DedupIdle /\ PipeIdle
    /\ EngIdle /\ ThrottleIdle /\ CacheIdle /\ WorkersIdle

\* what a step of gpt_batch_signal_info leaves alone
BatchFrame ==
    UNCHANGED <<gb_heads, gb_chunk, thVars, ddVars, pipeVars, engVars, thrVars,
                cacheVars, workerVars, geoVars, searchVars, fetches>>

\* lines 183-201: the next chunk and its batched call
GbBatchCall ==
    /\ gb_pc = "chunk"
    /\ gb_i < Len(gb_heads)
    /\ LET batch == batch_slice(gb_heads, gb_i, gb_chunk)
       IN  \E ob \in ServiceOutcomes(BatchAnswerBodies(batch)) :
            LET rsp == safe_chat(ob)
            IN  IF rsp.kind = "raised"
                THEN /\ gb_pc' = "raised"
                     /\ gb_calls' = Append(gb_calls, BatchedCall(batch, "raised", <<>>))
                     /\ UNCHANGED <<gb_i, gb_f, gb_results>>
                ELSE IF batch_falls_back(rsp)
                THEN /\ gb_pc' = "fallback"
                     /\ gb_f' = 1
                     /\ gb_calls' = Append(gb_calls, BatchedCall(batch, "unparsed", <<>>))
                     /\ UNCHANGED <<gb_i, gb_results>>
                ELSE /\ gb_results' = gb_results \o batch_results(rsp.body)
                     /\ gb_i' = gb_i + gb_chunk
                     /\ gb_calls' = Append(gb_calls,
                            BatchedCall(batch, "parsed", batch_results(rsp.body)))
                     /\ UNCHANGED <<gb_pc, gb_f>>
    /\ UNCHANGED budVars
    /\ BatchFrame

\* lines 203-205: the call of gpt_signal_info for the next headline of the
\* chunk
GbSignalCall ==
    /\ gb_pc = "fallback"
    /\ LET batch == batch_slice(gb_heads, gb_i, gb_chunk)
           h == batch[gb_f]
           gate == budget_ok(BUDGET_USED, COST_SIGNAL, DAILY_BUDGET).ret
       IN  \E os \in AsNeeded(gate, ServiceOutcomes(FallbackBodies)) :
                LET tmp == gpt_signal_info(gate, os)
                IN  IF tmp.kind = "raised"
                    THEN /\ gb_pc' = "raised"
                         /\ gb_calls' = Append(gb_calls, SignalCall(h, <<>>))
                         /\ UNCHANGED <<gb_i, gb_f, gb_results>>
                    ELSE /\ gb_results' = Append(gb_results, WithHeadline(h, tmp.val))
                         /\ gb_calls' = Append(gb_calls,
                                SignalCall(h, <<WithHeadline(h, tmp.val)>>))
                         /\ IF gb_f < Len(batch)
                            THEN /\ gb_f' = gb_f + 1
                                 /\ UNCHANGED <<gb_i, gb_pc>>
                            ELSE /\ gb_f' = 0
                                 /\ gb_i' = gb_i + gb_chunk
                                 /\ gb_pc' = "chunk"
    /\ EngCharge(COST_SIGNAL)
    /\ BatchFrame

\* line 206: return results
GbReturn ==
    /\ gb_pc = "chunk"
    /\ gb_i >= Len(gb_heads)
    /\ gb_pc' = "returned"
    /\ UNCHANGED <<gb_i, gb_f, gb_results, gb_calls, budVars>>
    /\ BatchFrame

NextBatch == GbBatchCall \/ GbSignalCall \/ GbReturn

SpecBatch == InitBatch /\ [][NextBatch]_vars

(***************************************************************************)
(* Claims about gpt_batch_signal_info, checked under SpecBatch.            *)
(***************************************************************************)
\* the positions of the batched calls among the calls made
BatchedAt == {k \in DOMAIN gb_calls : gb_calls[k].fn = "safe_chat"}

\* the batched call at k is the j-th one
Rank(k) == Cardinality({m \in BatchedAt : m <= k})

\* the position of the next batched call after k, or the end of the calls
NextBatched(k) ==
    IF \E m \in BatchedAt : m > k
    THEN CHOOSE m \in BatchedAt : m > k /\ \A x \in BatchedAt : x > k => m <= x
    ELSE Len(gb_calls) + 1

\* the j-th of the consecutive chunks of at most gb_chunk headlines
NthChunk(j) ==
    [m \in 1..Min(gb_chunk, Len(gb_heads) - (j - 1) * gb_chunk) |->
        gb_heads[(j - 1) * gb_chunk + m]]

\* what the calls made have added to results, in order
RECURSIVE AddedBy(_)
AddedBy(calls) ==
    IF calls = <<>> THEN <<>> ELSE Head(calls).added \o AddedBy(Tail(calls))

\* the calls of gpt_signal_info made for the chunk of the batched call at
\* k are those for its first headlines, in order, each adding one result
\* for its headline unless it raised
FallbackInOrder(k) ==
    LET batch == gb_calls[k].batch
        sig == SubSeq(gb_calls, k + 1, NextBatched(k) - 1)
    IN  /\ Len(sig) <= Len(batch)
        /\ \A m \in DOMAIN sig :
            /\ sig[m].head = batch[m]
            /\ \/ Len(sig[m].added) = 1 /\ sig[m].added[1].headline = batch[m]
               \/ /\ sig[m].added = <<>>
                  /\ gb_pc = "raised"
                  /\ k + m = Len(gb_calls)
        /\ (NextBatched(k) <= Len(gb_calls) \/ gb_pc \in {"chunk", "returned"})
             => Len(sig) = Len(batch)

C27_OneResultPerHeadline ==
    gb_pc = "returned" =>
        /\ Len(gb_results) = Len(gb_heads)
        /\ \A i \in DOMAIN gb_results :
            /\ "headline" \in DOMAIN gb_results[i]
            /\ gb_results[i].headline = gb_heads[i]


(***************************************************************************)
(* Concurrent callers of one adapter with one key: the sessions of the     *)
(* dashboard run in threads of one process and share the module            *)
(* fetch_signals, its connection _cache and cache_lock                     *)
(* (src/fetch_signals.py:54-88); each calls                                *)
(* gdelt_headlines(company, MAX_HEADLINES) for the same company (line      *)
(* 348), i.e. lines 132-158 with the same key.                             *)
(***************************************************************************)
\* the company every session searches
SessionQuery == <<"c">>

\* line 133: the key of the call, the same in every session
SessionKey == newsapi_key(SessionQuery, MAX_HEADLINES)

\* the cache file at the start: empty, an entry of the key written in this
\* TTL window, or one written a whole TTL before
SessionCaches ==
    {NoCache,
     store(NoCache, SessionKey, <<ArtA>>, 0),
     store(NoCache, SessionKey, <<ArtA>>, 0 - TTL_DEFAULT)}

\* a request sent to the upstream: by whom, for which key, at which clock
\* reading
Fetch(t, key, ts) == [thread |-> t, key |-> key, ts |-> ts]

\* a session touches the cache, the record of requests and its own locals
SessionFrame ==
    UNCHANGED <<ad_fetched, ad_fn, ad_arg, ad_trace, ad_ret, ad_n,
                thrVars, budVars, thVars, ddVars, pipeVars, engVars,
                geoVars, searchVars, batchVars>>

InitSessions ==
    /\ cache \in SessionCaches
    /\ ad_fetched = NoFetched /\ ad_fn = "none" /\ ad_arg = NoArg
    /\ ad_trace = <<>> /\ ad_ret = [kind |-> "none"] /\ ad_n = 0
    /\ WorkersIdle
    /\ ThrottleIdle
    /\ BudgetIdle /\ ThreadsIdle /\ DedupIdle /\ PipeIdle /\ EngIdle /\ MoreIdle

\* line 348: the session calls gdelt_headlines(company, MAX_HEADLINES)
SsCall(t) ==
    /\ w_pc[t] = "idle"
    /\ w_pc' = [w_pc EXCEPT ![t] = "cached"]
    /\ w_fn' = [w_fn EXCEPT ![t] = "gdelt_headlines"]
    /\ UNCHANGED <<cache, cache_lock, cache_tx, w_out, fetches>>
    /\ SessionFrame

\* line 72: _cached enters with cache_lock
SsLockRead(t) ==
    /\ w_pc[t] = "cached"
    /\ lock_free(cache_lock)
    /\ cache_lock' = t
    /\ w_pc' = [w_pc EXCEPT ![t] = "select"]
    /\ UNCHANGED <<cache, cache_tx, w_fn, w_out, fetches>>
    /\ SessionFrame

\* lines 73-78 and 134-136: SELECT, leave the lock; on a hit the adapter
\* returns the cached list, on a miss it goes on to the request
SsSelect(t) ==
    /\ w_pc[t] = "select"
    /\ cache_lock' = 0
    /\ LET cd == cached(ConnView, SessionKey, TTL_DEFAULT, now)
       IN  IF is_hit(cd)
           THEN /\ w_out' = [w_out EXCEPT ![t] = cd.data]
                /\ w_pc' = [w_pc EXCEPT ![t] = "done"]
           ELSE /\ w_pc' = [w_pc EXCEPT ![t] = "fetch"]
                /\ UNCHANGED w_out
    /\ UNCHANGED <<cache, cache_tx, w_fn, fetches>>
    /\ SessionFrame

\* lines 138-156: requests.get(...) to the upstream, outside the lock
SsFetch(t) ==
    /\ w_pc[t] = "fetch"
    /\ \E o \in UpstreamOutcomes :
        w_out' = [w_out EXCEPT ![t] = except_handler(newsapi_try(o)).val]
    /\ fetches' = Append(fetches, Fetch(t, SessionKey, now))
    /\ w_pc' = [w_pc EXCEPT ![t] = "store"]
    /\ UNCHANGED <<cache, cache_lock, cache_tx, w_fn>>
    /\ SessionFrame

\* lines 83-87 and 157: _store enters with cache_lock and runs INSERT OR
\* REPLACE
SsLockInsert(t) ==
    /\ w_pc[t] = "store"
    /\ lock_free(cache_lock)
    /\ cache_lock' = t
    /\ cache_tx' = [active |-> TRUE, key |-> SessionKey, data |-> w_out[t], ts |-> now]
    /\ w_pc' = [w_pc EXCEPT ![t] = "commit"]
    /\ UNCHANGED <<cache, w_fn, w_out, fetches>>
    /\ SessionFrame

\* lines 88 and 158: _cache.commit(), the lock is left and the adapter
\* returns out
SsCommit(t) ==
    /\ w_pc[t] = "commit"
    /\ cache' = ConnView
    /\ cache_tx' = NoCacheTx
    /\ cache_lock' = 0
    /\ w_pc' = [w_pc EXCEPT ![t] = "done"]
    /\ UNCHANGED <<w_fn, w_out, fetches>>
    /\ SessionFrame

NextSessions ==
    \E t \in Threads :
        \/ SsCall(t)
        \/ SsLockRead(t)
        \/ SsSelect(t)
        \/ SsFetch(t)
        \/ SsLockInsert(t)
        \/ SsCommit(t)

SpecSessions == InitSessions /\ [][NextSessions]_vars

\* two requests fall in one TTL window
SameWindow(f, g) == f.ts - g.ts < TTL_DEFAULT /\ g.ts - f.ts < TTL_DEFAULT

\* C26: at most one network fetch is made per cache key per TTL window
\* even under concurrency: when two or more threads call the same adapter
\* with the same query and result cap while the cache holds no fresh entry
\* for that key, exactly one of them performs the network request and the
\* others obtain its cached result.
C26_SingleFetchPerKey ==
    /\ \A i, j \in DOMAIN fetches :
        (fetches[i].key = fetches[j].key /\ SameWindow(fetches[i], fetches[j]))
            => i = j
    /\ \A t1, t2 \in Threads :
        (w_pc[t1] = "done" /\ w_pc[t2] = "done") => w_out[t1] = w_out[t2]

=============================================================================
